---- MODULE Spec2Model ----
(***************************************************************************)
(* Model of the brainiac worker: the thought HTTP write path, the analysis *)
(* job rows, the queue consumer with its tagging and mood processors, and  *)
(* the status aggregator.  Every storage statement of a queue pass is one  *)
(* step, so that two consumers handling the same job id can interleave.    *)
(***************************************************************************)
EXTENDS Integers, Sequences, FiniteSets, TLC

(* ---------------------------- bounds ----------------------------------- *)
MaxThoughts == 1
MaxEdits == 1
MaxDeliveries == 2
MaxDups == 1
MaxInjected == 1
MaxCount == 2
MaxItems == 3
MaxTagged == 2
MaxPasses == 3
MaxTenths == 60
MaxListed == 3
MaxNow == 1
MaxPage == 3
MaxRaw == 4
MaxRetries == 1

(* ------------------------- program constants --------------------------- *)
RetryDelaySeconds == 30
MaxLimit == 200

Users == {"u1"}
Bodies == {"b1"}
Workers == {"w1", "w2"}
Steps == {"tagging", "mood"}
NULL == "NULL"

(* A string is a sequence of one-character strings. *)
Foo == <<"a">>
Bar == <<"b">>

(* ------------------------------ state ---------------------------------- *)
VARIABLES
  thoughts,     \* thoughts table: row id = index
  jobs,         \* analysis_jobs table: row id = index
  tags,         \* tags table: row id = index
  thought_tags, \* thought_tags table: set of <<thought_id, tag_id>>
  moods,        \* thought_moods table: set of rows, unique on thought_id
  queue,        \* message bodies waiting for delivery
  worker,       \* per consumer invocation: position and locals
  resp,         \* the last HTTP response
  sum,          \* input row and output of the summarizeJobs harness
  call,         \* the function or listing under examination: input and result
  now,          \* unixepoch(), in seconds
  counters      \* bookkeeping that keeps the exploration finite

vars == <<thoughts, jobs, tags, thought_tags, moods, queue, worker, resp, sum, call, now, counters>>

(* ------------------------- analysis_jobs rows -------------------------- *)
\* INSERT INTO analysis_jobs(...) VALUES (?, ?, ?, 'queued', 0, ...)
createAnalysisJob(js, uid, thoughtId, step) ==
  Append(js, [thought_id |-> thoughtId, uid |-> uid, step |-> step,
              status |-> "queued", attempts |-> 0,
              error |-> NULL, error_stack |-> NULL, error_details |-> NULL,
              result |-> NULL])

\* SELECT ... WHERE id = ?  (TRUE when a row comes back)
jobExists(js, id) == id \in DOMAIN js

\* UPDATE ... SET status = 'processing' WHERE id = ? AND status != 'done'
markJobProcessing(js, id) ==
  IF id \in DOMAIN js /\ js[id].status # "done"
  THEN [js EXCEPT ![id].status = "processing"]
  ELSE js

\* UPDATE ... SET status = 'done', error = NULL, result_json = ? WHERE id = ?
markJobDone(js, id, resultJson) ==
  IF id \in DOMAIN js
  THEN [js EXCEPT ![id].status = "done", ![id].error = NULL, ![id].result = resultJson]
  ELSE js

\* markJobError writing attempts = ? instead of attempts = attempts + ?
markJobError_SetAttempts(js, id, message, attemptsDelta) ==
  IF id \in DOMAIN js
  THEN [js EXCEPT ![id].status = "error",
                  ![id].error = message,
                  ![id].error_stack = "stack",
                  ![id].error_details = "details",
                  ![id].attempts = attemptsDelta,
                  ![id].result = IF @ = NULL THEN "" ELSE @]
  ELSE js

\* UPDATE ... SET status = 'error', error = ?, error_stack = ?,
\*   error_details_json = ?, attempts = attempts + ?,
\*   result_json = COALESCE(result_json, '') WHERE id = ?
markJobError(js, id, message, attemptsDelta) ==
  IF id \in DOMAIN js
  THEN [js EXCEPT ![id].status = "error",
                  ![id].error = message,
                  ![id].error_stack = "stack",
                  ![id].error_details = "details",
                  ![id].attempts = @ + attemptsDelta,
                  ![id].result = IF @ = NULL THEN "" ELSE @]
  ELSE js

\* incrementJobAttempts counting a job once however many passes it gets
incrementJobAttempts_Once(js, id) ==
  IF id \in DOMAIN js THEN [js EXCEPT ![id].attempts = 1] ELSE js

\* UPDATE ... SET attempts = attempts + 1 WHERE id = ?
incrementJobAttempts(js, id) ==
  IF id \in DOMAIN js
  THEN [js EXCEPT ![id].attempts = @ + 1]
  ELSE js

(* ---------------------------- thoughts rows ---------------------------- *)
\* INSERT INTO thoughts(uid, body, created_at)
createThought(ts, uid, body, at) ==
  Append(ts, [uid |-> uid, body |-> body, created_at |-> at, edited |-> FALSE,
              deleted |-> FALSE])

\* UPDATE thoughts SET body = ?, updated_at = ... WHERE id = ? AND uid = ? AND deleted_at IS NULL
updateThoughtBody(ts, uid, id, body) ==
  IF id \in DOMAIN ts /\ ts[id].uid = uid /\ ~ts[id].deleted
  THEN [ts EXCEPT ![id].body = body, ![id].edited = TRUE]
  ELSE ts

\* softDeleteThought without the owner in its WHERE clause
softDeleteThought_AnyOwner(ts, uid, id) ==
  IF id \in DOMAIN ts /\ ~ts[id].deleted
  THEN [ts EXCEPT ![id].deleted = TRUE]
  ELSE ts

\* UPDATE thoughts SET deleted_at = ... WHERE id = ? AND uid = ? AND deleted_at IS NULL
softDeleteThought(ts, uid, id) ==
  IF id \in DOMAIN ts /\ ts[id].uid = uid /\ ~ts[id].deleted
  THEN [ts EXCEPT ![id].deleted = TRUE]
  ELSE ts

\* SELECT ... FROM thoughts WHERE id = ? AND uid = ?  (TRUE when a row comes back)
thoughtFound(ts, uid, id) == id \in DOMAIN ts /\ ts[id].uid = uid

(* --------------------------- thought listings -------------------------- *)
\* An absent cursor, and the cursor { createdAt, id }.
NoCursor == [present |-> FALSE, createdAt |-> 0, id |-> 0]
Cursor(c, i) == [present |-> TRUE, createdAt |-> c, id |-> i]

\* AND (created_at < ? OR (created_at = ? AND id < ?)), when a cursor is given
afterCursor(ts, i, cursor) ==
  ~cursor.present
    \/ ts[i].created_at < cursor.createdAt
    \/ (ts[i].created_at = cursor.createdAt /\ i < cursor.id)

\* ORDER BY created_at DESC, id DESC LIMIT ?: the first limit ids of S in that order
RECURSIVE orderedPage(_, _, _)
orderedPage(ts, S, limit) ==
  IF S = {} \/ limit <= 0 THEN <<>>
  ELSE LET top == CHOOSE i \in S : \A j \in S :
                    \/ ts[i].created_at > ts[j].created_at
                    \/ (ts[i].created_at = ts[j].created_at /\ i >= j)
       IN <<top>> \o orderedPage(ts, S \ {top}, limit - 1)

\* listThoughts with the cursor compared on created_at alone
listThoughts_NoTieBreak(ts, uid, limit, cursor) ==
  orderedPage(ts,
              {i \in DOMAIN ts : /\ ts[i].uid = uid /\ ~ts[i].deleted
                                  /\ (~cursor.present \/ ts[i].created_at < cursor.createdAt)},
              limit)

\* listThoughts: the ids of the rows, in result order
listThoughts(ts, uid, limit, cursor) ==
  orderedPage(ts,
              {i \in DOMAIN ts : ts[i].uid = uid /\ ~ts[i].deleted /\ afterCursor(ts, i, cursor)},
              limit)

(* ------------------------------ tags rows ------------------------------ *)
\* last_used_at is 0 for NULL; unixepoch() of a statement run by a queue pass
\* is recorded as the id of the job the pass works on.
TagIdsNamed(tg, uid, names) ==
  {i \in DOMAIN tg : tg[i].uid = uid /\ tg[i].name \in names}

\* SELECT t.name FROM thought_tags tt JOIN tags t ON t.id = tt.tag_id WHERE tt.thought_id = ?
getThoughtTags(tg, tt, thoughtId) ==
  {tg[l[2]].name : l \in {x \in tt : x[1] = thoughtId}}

RECURSIVE upsertTags(_, _, _)
\* INSERT OR IGNORE INTO tags(uid, name, created_at), one statement per name
upsertTags(tg, uid, tagNames) ==
  IF tagNames = <<>> THEN tg
  ELSE LET name == Head(tagNames)
           tg1 == IF TagIdsNamed(tg, uid, {name}) = {}
                  THEN Append(tg, [uid |-> uid, name |-> name, last_used_at |-> 0])
                  ELSE tg
       IN upsertTags(tg1, uid, Tail(tagNames))

SeqRange(s) == {s[i] : i \in DOMAIN s}

\* setThoughtTagsAiOnly, first statement: read the current names and diff
\* toRemove holding every current name, kept ones included
tagsToRemove_All(current, tagNames) == current

tagsToRemove(current, tagNames) == current \ SeqRange(tagNames)
tagsToAdd(current, tagNames) == SelectSeq(tagNames, LAMBDA t : t \notin current)

\* setThoughtTagsAiOnly, the toAdd block: upsert, link, bump last_used_at
addThoughtTags(tg, tt, uid, thoughtId, toAdd, stamp) ==
  IF Len(toAdd) > 0
  THEN LET tg1 == upsertTags(tg, uid, toAdd)
           ids == TagIdsNamed(tg1, uid, SeqRange(toAdd))
       IN [tags |-> [i \in DOMAIN tg1 |->
                       IF i \in ids THEN [tg1[i] EXCEPT !.last_used_at = stamp] ELSE tg1[i]],
           thought_tags |-> tt \cup {<<thoughtId, i>> : i \in ids}]
  ELSE [tags |-> tg, thought_tags |-> tt]

\* the DELETE without its thought_id condition
removeThoughtTags_AnyThought(tg, tt, uid, thoughtId, toRemove) ==
  IF toRemove # {}
  THEN {l \in tt : l[2] \notin TagIdsNamed(tg, uid, toRemove)}
  ELSE tt

\* setThoughtTagsAiOnly, the toRemove block: DELETE FROM thought_tags ...
removeThoughtTags(tg, tt, uid, thoughtId, toRemove) ==
  IF toRemove # {}
  THEN {l \in tt : ~(l[1] = thoughtId /\ l[2] \in TagIdsNamed(tg, uid, toRemove))}
  ELSE tt

(* ------------------------- listing by tag names ------------------------ *)
\* the tg.name values of thought i's group: JOIN thought_tags, JOIN tags,
\* WHERE tg.uid = ? AND tg.name IN (...)
matchedNames(tg, tt, uid, i, tagNames) ==
  {tg[l[2]].name : l \in {x \in tt : /\ x[1] = i /\ tg[x[2]].uid = uid
                                      /\ tg[x[2]].name \in SeqRange(tagNames)}}

\* listThoughtsByTagNames without the deleted_at condition
listThoughtsByTagNames_WithDeleted(ts, tg, tt, uid, tagNames, limit, cursor) ==
  IF Len(tagNames) = 0 THEN <<>>
  ELSE orderedPage(ts,
         {i \in DOMAIN ts :
            /\ ts[i].uid = uid /\ afterCursor(ts, i, cursor)
            /\ matchedNames(tg, tt, uid, i, tagNames) # {}
            /\ Cardinality(matchedNames(tg, tt, uid, i, tagNames)) = Len(tagNames)},
         limit)

\* listThoughtsByTagNames: GROUP BY th.id HAVING COUNT(DISTINCT tg.name) = tags.length
listThoughtsByTagNames(ts, tg, tt, uid, tagNames, limit, cursor) ==
  IF Len(tagNames) = 0 THEN <<>>
  ELSE orderedPage(ts,
         {i \in DOMAIN ts :
            /\ ts[i].uid = uid /\ ~ts[i].deleted /\ afterCursor(ts, i, cursor)
            /\ matchedNames(tg, tt, uid, i, tagNames) # {}
            /\ Cardinality(matchedNames(tg, tt, uid, i, tagNames)) = Len(tagNames)},
         limit)

(* ------------------------ tag normalisation ---------------------------- *)
Whitespace == {" "}
RegexChars == {"a", "b", "A", "0", "_", "-"}

RECURSIVE TrimLeft(_)
TrimLeft(s) == IF s # <<>> /\ Head(s) \in Whitespace THEN TrimLeft(Tail(s)) ELSE s

RECURSIVE TrimRight(_)
TrimRight(s) ==
  IF s # <<>> /\ s[Len(s)] \in Whitespace THEN TrimRight(SubSeq(s, 1, Len(s) - 1)) ELSE s

\* String.prototype.trim
Trim(s) == TrimRight(TrimLeft(s))

\* /^[A-Za-z0-9_-]+$/.test(tag)
TAG_REGEX(s) == Len(s) >= 1 /\ \A i \in DOMAIN s : s[i] \in RegexChars

RECURSIVE normalizeLoop(_, _, _)
normalizeLoop(arr, valid, invalid) ==
  IF arr = <<>> THEN [valid |-> valid, invalid |-> invalid]
  ELSE LET item == Head(arr)
           tag == Trim(item.chars)
       IN IF ~item.isString
          THEN normalizeLoop(Tail(arr), valid, Append(invalid, item.chars))
          ELSE IF Len(tag) = 0
          THEN normalizeLoop(Tail(arr), valid, invalid)
          ELSE IF ~TAG_REGEX(tag)
          THEN normalizeLoop(Tail(arr), valid, Append(invalid, tag))
          ELSE normalizeLoop(Tail(arr),
                             IF tag \in SeqRange(valid) THEN valid ELSE Append(valid, tag),
                             invalid)

\* normalizeAndValidateTags without the Array.isArray test: any iterable is walked
normalizeAndValidateTags_AnyIterable(rawTags) ==
  normalizeLoop(rawTags.items, <<>>, <<>>)

\* normalizeAndValidateTags reporting the rejected names but keeping them
normalizeAndValidateTags_KeepInvalid(rawTags) ==
  LET r == normalizeLoop(IF rawTags.isArray THEN rawTags.items ELSE <<>>, <<>>, <<>>)
  IN [valid |-> r.valid \o r.invalid, invalid |-> r.invalid]

\* rawTags is [isArray, items]; an item is [isString, chars] where chars is the
\* string itself, or String(item) for a non-string item.  A value that is not an
\* array can still be iterable (a string is), so it carries items too.
normalizeAndValidateTags(rawTags) ==
  normalizeLoop(IF rawTags.isArray THEN rawTags.items ELSE <<>>, <<>>, <<>>)

Str(s) == [isString |-> TRUE, chars |-> s]
NonStr(s) == [isString |-> FALSE, chars |-> s]
Arr(items) == [isArray |-> TRUE, items |-> items]
NotArr == [isArray |-> FALSE, items |-> <<>>]

(* --------------------------- mood validation --------------------------- *)
\* A JSON value of mood_score: numbers are kept in tenths, so 35 is 3.5.
Num(t) == [type |-> "number", tenths |-> t, nan |-> FALSE]
NumStr(t) == [type |-> "string", tenths |-> t, nan |-> FALSE]
Missing == [type |-> "undefined", tenths |-> 0, nan |-> TRUE]

\* Number(parsed.mood_score): a numeric string converts to its number,
\* undefined converts to NaN
ToNumber(v) == [tenths |-> v.tenths, nan |-> v.nan]

\* Number.isFinite(score) && Number.isInteger(score) && 1 <= score <= 5
moodScoreOk(v) ==
  LET score == ToNumber(v)
  IN ~score.nan /\ score.tenths % 10 = 0 /\ score.tenths >= 10 /\ score.tenths <= 50

\* typeof parsed.explanation === 'string' ? parsed.explanation.trim() : ''
moodExplanation(e) == IF e.isString THEN Trim(e.chars) ELSE <<>>

(* --------------------------- status aggregator ------------------------- *)
CountStatus(js, uid, thoughtId, st) ==
  Cardinality({i \in DOMAIN js :
     js[i].uid = uid /\ js[i].thought_id = thoughtId /\ js[i].status = st})

\* SELECT thought_id, COUNT(*) AS total, SUM(status = 'queued') AS queued, ...
\* FROM analysis_jobs WHERE uid = ? AND thought_id IN (...) GROUP BY thought_id;
\* present is FALSE when the map has no entry for the thought.
getAnalysisJobStatusSummary(js, uid, thoughtId) ==
  LET n == Cardinality({i \in DOMAIN js : js[i].uid = uid /\ js[i].thought_id = thoughtId})
  IN [present |-> n > 0,
      total |-> n,
      queued |-> CountStatus(js, uid, thoughtId, "queued"),
      processing |-> CountStatus(js, uid, thoughtId, "processing"),
      done |-> CountStatus(js, uid, thoughtId, "done"),
      error |-> CountStatus(js, uid, thoughtId, "error"),
      last_updated_at |-> 0]

NullSummary ==
  [isNull |-> TRUE, status |-> NULL, total |-> 0, queued |-> 0, processing |-> 0,
   done |-> 0, error |-> 0, last_updated_at |-> 0]

\* summarizeJobs testing processing before error
summarizeJobs_ProcessingFirst(row) ==
  IF ~row.present \/ row.total <= 0 THEN NullSummary
  ELSE [isNull |-> FALSE,
        status |-> IF row.processing > 0 THEN "processing"
                   ELSE IF row.error > 0 THEN "error"
                   ELSE IF row.queued > 0 THEN "queued"
                   ELSE "done",
        total |-> row.total, queued |-> row.queued, processing |-> row.processing,
        done |-> row.done, error |-> row.error, last_updated_at |-> row.last_updated_at]

\* summarizeJobs reporting error only when nothing is queued
summarizeJobs_QueuedFirst(row) ==
  IF ~row.present \/ row.total <= 0 THEN NullSummary
  ELSE [isNull |-> FALSE,
        status |-> IF row.queued > 0 THEN "queued"
                   ELSE IF row.error > 0 THEN "error"
                   ELSE IF row.processing > 0 THEN "processing"
                   ELSE "done",
        total |-> row.total, queued |-> row.queued, processing |-> row.processing,
        done |-> row.done, error |-> row.error, last_updated_at |-> row.last_updated_at]

summarizeJobs(row) ==
  IF ~row.present \/ row.total <= 0 THEN NullSummary
  ELSE [isNull |-> FALSE,
        status |-> IF row.error > 0 THEN "error"
                   ELSE IF row.processing > 0 THEN "processing"
                   ELSE IF row.queued > 0 THEN "queued"
                   ELSE "done",
        total |-> row.total, queued |-> row.queued, processing |-> row.processing,
        done |-> row.done, error |-> row.error, last_updated_at |-> row.last_updated_at]

(* ---------------------------- mood rows -------------------------------- *)
\* INSERT INTO thought_moods(...) ... ON CONFLICT(thought_id) DO UPDATE
upsertThoughtMood(ms, uid, thoughtId, moodScore, explanation, stamp) ==
  {m \in ms : m.thought_id # thoughtId}
    \cup {[thought_id |-> thoughtId, uid |-> uid, mood_score |-> moodScore,
           explanation |-> explanation, written_by |-> stamp]}

(* ------------------------------ messages ------------------------------- *)
\* A message body: kind "job" carries an integer jobId, "fraction" a number
\* that is not an integer, "string" a jobId of another type, "nojobid" an
\* object without jobId, "nobody" no body at all.  Row ids start at 1, so
\* JobMsg(0) names a job that does not exist.
JobMsg(id) == [kind |-> "job", jobId |-> id]
InjectedBodies ==
  {[kind |-> "nobody", jobId |-> 0], [kind |-> "nojobid", jobId |-> 0],
   [kind |-> "string", jobId |-> 0], [kind |-> "fraction", jobId |-> 0],
   JobMsg(0)}

\* !body || typeof body.jobId !== 'number'
bodyRejected(body) == body.kind = "nobody" \/ body.kind \notin {"job", "fraction"}

\* the id the lookup binds: no row has a fractional id
boundJobId(body) == IF body.kind = "job" THEN body.jobId ELSE 0

(* ----------------------------- AI outcomes ----------------------------- *)
ErrTransport == "AI transport error"
ErrNonJson == "AI returned non-JSON output"
ErrNonJsonMood == "AI returned non-JSON mood output"
ErrTypeError == "TypeError: cannot read properties of null"
ErrMoodScore == "AI returned invalid mood_score (expected integer 1-5)"
ErrExplanation == "AI returned empty explanation"
ErrJobNotFound == "Analysis job not found"
ErrThoughtNotFound == "Thought not found"

\* what runTaggerAi + extractAiOutputText + JSON.parse can yield for a tagging job
TaggingAiOutcomes ==
  {[kind |-> "transport", tags |-> NotArr],
   [kind |-> "non_json", tags |-> NotArr],
   [kind |-> "json_null", tags |-> NotArr],
   [kind |-> "json", tags |-> NotArr],
   [kind |-> "json", tags |-> Arr(<<Str(Foo)>>)],
   [kind |-> "json", tags |-> Arr(<<Str(<<" ", "b">>), Str(<<"a", " ", "b">>), Str(Bar)>>)]}

\* what they can yield for a mood job
MoodAiOutcomes ==
  {[kind |-> "transport", mood_score |-> Missing, explanation |-> NonStr(<<>>)],
   [kind |-> "non_json", mood_score |-> Missing, explanation |-> NonStr(<<>>)],
   [kind |-> "json", mood_score |-> Num(30), explanation |-> Str(<<"o", "k">>)],
   [kind |-> "json", mood_score |-> Num(10), explanation |-> Str(Bar)],
   [kind |-> "json", mood_score |-> Num(60), explanation |-> Str(<<"o", "k">>)],
   [kind |-> "json", mood_score |-> Num(50), explanation |-> Str(<<" ">>)]}

(* ------------------------------ workers -------------------------------- *)
IdleWorker ==
  [pc |-> "idle", batch |-> <<>>, idx |-> 0, signals |-> <<>>,
   jobId |-> 0, step |-> NULL, uid |-> NULL, thoughtId |-> 0, body |-> NULL,
   err |-> NULL, valid |-> <<>>, toAdd |-> <<>>, toRemove |-> {},
   score |-> 0, explanation |-> <<>>, result |-> NULL,
   aiCalls |-> 0, sawDeleted |-> FALSE, markFailed |-> FALSE, touched |-> FALSE]

NoResp == [op |-> "none", ok |-> FALSE, thought |-> 0, analysis |-> NullSummary]

SummaryRows ==
  [present : BOOLEAN, total : -1..MaxCount, queued : 0..MaxCount,
   processing : 0..MaxCount, done : 0..MaxCount, error : 0..MaxCount,
   last_updated_at : {5, 9}]

NoCall == [fn |-> "none"]

InitCommon ==
  /\ thoughts = <<>>
  /\ jobs = <<>>
  /\ tags = <<>>
  /\ thought_tags = {}
  /\ moods = {}
  /\ queue = {}
  /\ worker = [w \in Workers |-> IdleWorker]
  /\ resp = NoResp
  /\ counters = [edits |-> 0, deliveries |-> 0, dups |-> 0, injected |-> 0]
  /\ now = 0

IdleSum ==
  [row |-> [present |-> FALSE, total |-> 0, queued |-> 0, processing |-> 0,
            done |-> 0, error |-> 0, last_updated_at |-> 5],
   out |-> NullSummary, applied |-> FALSE]

Init ==
  /\ InitCommon
  /\ sum = IdleSum
  /\ call = NoCall

(* --------------------------- HTTP handlers ----------------------------- *)
QueuedPair ==
  [isNull |-> FALSE, status |-> "queued", total |-> 2, queued |-> 2, processing |-> 0,
   done |-> 0, error |-> 0, last_updated_at |-> 0]

\* POST /api/thoughts, while fewer than max thoughts exist
PostThoughtUpTo(max, uid, body) ==
  /\ Len(thoughts) < max
  /\ LET ts == createThought(thoughts, uid, body, now)
         id == Len(ts)
         js1 == createAnalysisJob(jobs, uid, id, "tagging")
         js2 == createAnalysisJob(js1, uid, id, "mood")
     IN /\ thoughts' = ts
        /\ jobs' = js2
        /\ queue' = queue \cup {JobMsg(Len(js1)), JobMsg(Len(js2))}
        /\ resp' = [op |-> "post", ok |-> TRUE, thought |-> id, analysis |-> QueuedPair]
  /\ UNCHANGED <<tags, thought_tags, moods, worker, sum, call, now, counters>>

\* POST /api/thoughts enqueueing the tagging job only
PostThought_TaggingOnly(uid, body) ==
  /\ Len(thoughts) < MaxThoughts
  /\ LET ts == createThought(thoughts, uid, body, now)
         id == Len(ts)
         js1 == createAnalysisJob(jobs, uid, id, "tagging")
     IN /\ thoughts' = ts
        /\ jobs' = js1
        /\ queue' = queue \cup {JobMsg(Len(js1))}
        /\ resp' = [op |-> "post", ok |-> TRUE, thought |-> id,
                    analysis |-> [QueuedPair EXCEPT !.total = 1, !.queued = 1]]
  /\ UNCHANGED <<tags, thought_tags, moods, worker, sum, call, now, counters>>

PostThought(uid, body) == PostThoughtUpTo(MaxThoughts, uid, body)

\* PATCH /api/thoughts/:id putting the thought's job rows back to queued
\* instead of inserting new ones
PatchThought_Requeue(uid, id, body) ==
  /\ counters.edits < MaxEdits
  /\ counters' = [counters EXCEPT !.edits = @ + 1]
  /\ LET ts == updateThoughtBody(thoughts, uid, id, body)
     IN IF ~thoughtFound(ts, uid, id)
        THEN /\ resp' = [op |-> "patch", ok |-> FALSE, thought |-> id, analysis |-> NullSummary]
             /\ UNCHANGED <<thoughts, jobs, queue>>
        ELSE /\ thoughts' = ts
             /\ jobs' = [k \in DOMAIN jobs |->
                           IF jobs[k].thought_id = id
                           THEN [jobs[k] EXCEPT !.status = "queued", !.attempts = 0]
                           ELSE jobs[k]]
             /\ queue' = queue \cup {JobMsg(k) : k \in {n \in DOMAIN jobs : jobs[n].thought_id = id}}
             /\ resp' = [op |-> "patch", ok |-> TRUE, thought |-> id, analysis |-> QueuedPair]
  /\ UNCHANGED <<tags, thought_tags, moods, worker, sum, call, now>>

\* PATCH /api/thoughts/:id
PatchThought(uid, id, body) ==
  /\ counters.edits < MaxEdits
  /\ counters' = [counters EXCEPT !.edits = @ + 1]
  /\ LET ts == updateThoughtBody(thoughts, uid, id, body)
     IN IF ~thoughtFound(ts, uid, id)
        THEN /\ resp' = [op |-> "patch", ok |-> FALSE, thought |-> id, analysis |-> NullSummary]
             /\ UNCHANGED <<thoughts, jobs, queue>>
        ELSE LET js1 == createAnalysisJob(jobs, uid, id, "tagging")
                 js2 == createAnalysisJob(js1, uid, id, "mood")
             IN /\ thoughts' = ts
                /\ jobs' = js2
                /\ queue' = queue \cup {JobMsg(Len(js1)), JobMsg(Len(js2))}
                /\ resp' = [op |-> "patch", ok |-> TRUE, thought |-> id, analysis |-> QueuedPair]
  /\ UNCHANGED <<tags, thought_tags, moods, worker, sum, call, now>>

\* DELETE /api/thoughts/:id
DeleteThought(uid, id) ==
  /\ id \in DOMAIN thoughts
  /\ thoughts' = softDeleteThought(thoughts, uid, id)
  /\ thoughts' # thoughts
  /\ UNCHANGED <<resp, jobs, tags, thought_tags, moods, queue, worker, sum, call, now, counters>>

\* GET /api/thoughts/analysis-status?ids=id: the summary returned for one id
analysisStatus(uid, id) == summarizeJobs(getAnalysisJobStatusSummary(jobs, uid, id))

\* `${n}` for a non-negative integer, and Number() of a run of digits
DigitChars == <<"0", "1", "2", "3", "4", "5", "6", "7", "8", "9">>
DigitValue(ch) == CHOOSE d \in 0..9 : DigitChars[d + 1] = ch
IsDigits(str) == str # <<>> /\ \A k \in DOMAIN str : str[k] \in SeqRange(DigitChars)

RECURSIVE Digits(_)
Digits(n) == IF n < 10 THEN <<DigitChars[n + 1]>>
             ELSE Digits(n \div 10) \o <<DigitChars[(n % 10) + 1]>>

RECURSIVE ToNat(_)
ToNat(str) == IF str = <<>> THEN 0
              ELSE ToNat(SubSeq(str, 1, Len(str) - 1)) * 10 + DigitValue(str[Len(str)])

\* parseCursor: cursor.match(/^(\d+):(\d+)$/); the empty string stands for a
\* parameter that is absent
parseCursor(str) ==
  LET seps == {k \in DOMAIN str :
                 /\ str[k] = ":"
                 /\ IsDigits(SubSeq(str, 1, k - 1))
                 /\ IsDigits(SubSeq(str, k + 1, Len(str)))}
  IN IF seps = {} THEN NoCursor
     ELSE LET k == CHOOSE x \in seps : TRUE
          IN Cursor(ToNat(SubSeq(str, 1, k - 1)), ToNat(SubSeq(str, k + 1, Len(str))))

\* next_cursor taken from the first row of the page instead of the last
nextCursor_FirstOfPage(ts, page) ==
  IF Len(page) > 0
  THEN [isNull |-> FALSE,
        chars |-> Digits(ts[page[1]].created_at) \o <<":">> \o Digits(page[1])]
  ELSE [isNull |-> TRUE, chars |-> <<>>]

\* next_cursor: next ? `${next.created_at}:${next.id}` : null
nextCursor(ts, page) ==
  IF Len(page) > 0
  THEN [isNull |-> FALSE,
        chars |-> Digits(ts[page[Len(page)]].created_at) \o <<":">> \o Digits(page[Len(page)])]
  ELSE [isNull |-> TRUE, chars |-> <<>>]

\* Math.min(Math.max(Number(limit), 1), 200)
clampLimit(n) ==
  LET atLeast == IF n > 1 THEN n ELSE 1
  IN IF atLeast < MaxLimit THEN atLeast ELSE MaxLimit

\* GET /api/thoughts answering a null next_cursor for a page shorter than the limit
getThoughts_NullOnShortPage(uid, limitParam, cursorParam) ==
  LET page == listThoughts(thoughts, uid, clampLimit(limitParam), parseCursor(cursorParam))
  IN [thoughts |-> page,
      next_cursor |-> IF Len(page) < clampLimit(limitParam)
                      THEN [isNull |-> TRUE, chars |-> <<>>]
                      ELSE nextCursor(thoughts, page)]

\* GET /api/thoughts?limit=&cursor=: the ids of the page and next_cursor
getThoughts(uid, limitParam, cursorParam) ==
  LET page == listThoughts(thoughts, uid, clampLimit(limitParam), parseCursor(cursorParam))
  IN [thoughts |-> page, next_cursor |-> nextCursor(thoughts, page)]

\* tags.split(','): the pieces of str between commas
RECURSIVE splitComma(_, _)
splitComma(str, piece) ==
  IF str = <<>> THEN <<piece>>
  ELSE IF Head(str) = "," THEN <<piece>> \o splitComma(Tail(str), <<>>)
  ELSE splitComma(Tail(str), Append(piece, Head(str)))

\* parseTagsParam: split, trim, drop the empty pieces
parseTagsParam(str) ==
  IF str = <<>> THEN <<>>
  ELSE LET pieces == splitComma(str, <<>>)
           trimmed == [k \in DOMAIN pieces |-> Trim(pieces[k])]
       IN SelectSeq(trimmed, LAMBDA t : Len(t) > 0)

\* GET /api/thoughts/by-tags?tags=&limit=&cursor=
getThoughtsByTags(uid, limitParam, cursorParam, tagsParam) ==
  LET names == parseTagsParam(tagsParam)
      page == listThoughtsByTagNames(thoughts, tags, thought_tags, uid, names,
                                     clampLimit(limitParam), parseCursor(cursorParam))
  IN IF Len(names) = 0
     THEN [status |-> 400, thoughts |-> <<>>, next_cursor |-> nextCursor(thoughts, <<>>)]
     ELSE [status |-> 200, thoughts |-> page, next_cursor |-> nextCursor(thoughts, page)]

\* GET /api/thoughts/:id: the status of the response; a miss of getThoughtById
\* throws out of the handler
getThought(uid, id) ==
  IF ~thoughtFound(thoughts, uid, id) THEN 500
  ELSE IF thoughts[id].deleted THEN 404
  ELSE 200

\* listUserTagsWithStats: WHERE t.uid = ? AND (COALESCE(last_used_at, 0) < ? OR
\* (COALESCE(last_used_at, 0) = ? AND t.id < ?)) ORDER BY COALESCE(last_used_at, 0)
\* DESC, t.id DESC LIMIT ?.  TagKeys gives each tag row its sort key; a
\* last_used_at that is null is 0 in the tag rows.
TagKeys(tg) == [i \in DOMAIN tg |-> [created_at |-> tg[i].last_used_at]]

listUserTagsWithStats(tg, uid, limit, cursor) ==
  orderedPage(TagKeys(tg),
              {i \in DOMAIN tg : tg[i].uid = uid /\ afterCursor(TagKeys(tg), i, cursor)},
              limit)

\* GET /api/tags?limit=&cursor=: the ids of the page and next_cursor
getTags(uid, limitParam, cursorParam) ==
  LET page == listUserTagsWithStats(tags, uid, clampLimit(limitParam), parseCursor(cursorParam))
  IN [tags |-> page, next_cursor |-> nextCursor(TagKeys(tags), page)]

(* --------------------------- offset parameter -------------------------- *)

\* A query parameter is absent (searchParams.get gives null) or a string.
NoParam == [null |-> TRUE, chars |-> <<>>]
Param(chars) == [null |-> FALSE, chars |-> chars]

NaN == [nan |-> TRUE, finite |-> FALSE, int |-> 0, whole |-> FALSE]
Infinite(neg) == [nan |-> FALSE, finite |-> FALSE, int |-> IF neg THEN -1 ELSE 1, whole |-> FALSE]
Finite(i, whole) == [nan |-> FALSE, finite |-> TRUE, int |-> i, whole |-> whole]

\* The decimal literal of a string: digits, optionally a point and more digits,
\* one of the two parts possibly empty; int is the part before the point and
\* whole says that nothing but zeros follows the point.
UnsignedDecimal(str) ==
  LET points == {k \in DOMAIN str : str[k] = "."}
      at == IF points = {} THEN Len(str) + 1 ELSE CHOOSE k \in points : TRUE
      intPart == SubSeq(str, 1, at - 1)
      fracPart == SubSeq(str, at + 1, Len(str))
      digitsOnly(part) == \A k \in DOMAIN part : part[k] \in SeqRange(DigitChars)
  IN IF /\ Cardinality(points) <= 1
        /\ digitsOnly(intPart) /\ digitsOnly(fracPart)
        /\ intPart \o fracPart # <<>>
     THEN Finite(ToNat(intPart), \A k \in DOMAIN fracPart : fracPart[k] = "0")
     ELSE NaN

\* Number(string): white space trimmed, the empty string is 0, then an optional
\* sign and a decimal literal or Infinity; anything else is NaN
StringToNumber(chars) ==
  LET str == Trim(chars)
      signed == str # <<>> /\ Head(str) \in {"-", "+"}
      neg == signed /\ Head(str) = "-"
      body == IF signed THEN Tail(str) ELSE str
      n == UnsignedDecimal(body)
  IN IF str = <<>> THEN Finite(0, TRUE)
     ELSE IF body = <<"I", "n", "f", "i", "n", "i", "t", "y">> THEN Infinite(neg)
     ELSE IF n.nan THEN NaN
     ELSE Finite(IF neg THEN 0 - n.int ELSE n.int, n.whole)

MathMax(a, b) == IF a > b THEN a ELSE b
MathMin(a, b) == IF a < b THEN a ELSE b

parseTzOffsetMinutesParam_NoClamp(raw) ==
  LET n == StringToNumber(IF raw.null THEN <<"0">> ELSE raw.chars)
  IN IF ~n.finite \/ ~(n.finite /\ n.whole) THEN 0
     ELSE n.int

parseTzOffsetMinutesParam(raw) ==
  LET n == StringToNumber(IF raw.null THEN <<"0">> ELSE raw.chars)
  IN IF ~n.finite \/ ~(n.finite /\ n.whole) THEN 0
     ELSE MathMax(-14 * 60, MathMin(14 * 60, n.int))

(* ------------------------------ local days ----------------------------- *)
\* Date.UTC(y, m - 1, d, 0, 0, 0) in milliseconds: the day number of MakeDay
\* (DayFromYear, the months before, the date), a year from 0 to 99 standing
\* for 1900 + year.
InLeapYear(y) == (y % 4 = 0 /\ y % 100 # 0) \/ y % 400 = 0
MonthDays(y, m) ==
  IF m = 2 THEN (IF InLeapYear(y) THEN 29 ELSE 28)
  ELSE IF m \in {4, 6, 9, 11} THEN 30 ELSE 31

RECURSIVE DaysBeforeMonth(_, _)
DaysBeforeMonth(y, m) == IF m <= 1 THEN 0 ELSE DaysBeforeMonth(y, m - 1) + MonthDays(y, m - 1)

DayFromYear(y) ==
  365 * (y - 1970) + ((y - 1969) \div 4) - ((y - 1901) \div 100) + ((y - 1601) \div 400)

\* A number of milliseconds or of seconds since the epoch is kept as whole days
\* plus a rest within the day, the rest from 0 up to one day.
InDay(days, rest, perDay) ==
  [day |-> days + (rest \div perDay), rest |-> rest % perDay]

DateUTC(y, m, d) ==
  LET yr == IF y >= 0 /\ y <= 99 THEN 1900 + y ELSE y
  IN InDay(DayFromYear(yr) + DaysBeforeMonth(yr, m) + d - 1, 0, 86400000)

\* utcRangeForLocalDay: start and endExclusive in seconds
utcRangeForLocalDay(y, m, d, tzOffsetMinutes) ==
  LET utc == DateUTC(y, m, d)
      startMs == InDay(utc.day, utc.rest + tzOffsetMinutes * 60 * 1000, 86400000)
      start == InDay(startMs.day, startMs.rest \div 1000, 86400)
  IN [start |-> start, endExclusive |-> InDay(start.day, start.rest + 24 * 60 * 60, 86400)]

(* --------------------------- queue consumer ---------------------------- *)
Signal(kind, delay) == [sig |-> kind, delay |-> delay]

\* the loop left at the first signal: break where the code has continue
signalled_EndsBatch(me, kind, delay) ==
  [me EXCEPT !.pc = "end", !.signals = Append(me.signals, Signal(kind, delay)),
             !.toAdd = <<>>, !.toRemove = {}, !.score = 0, !.explanation = <<>>]

\* message.ack() / message.retry({delaySeconds}), then the loop's next
\* iteration; after the last message the consumer is at the end of queue()
signalled(me, kind, delay) ==
  LET sigs == Append(me.signals, Signal(kind, delay))
  IN IF me.idx = Len(me.batch)
     THEN [me EXCEPT !.pc = "end", !.signals = sigs, !.toAdd = <<>>, !.toRemove = {},
                     !.score = 0, !.explanation = <<>>]
     ELSE [IdleWorker EXCEPT !.pc = "msg", !.batch = me.batch, !.idx = me.idx + 1,
                             !.signals = sigs]

\* a retried message goes back to the queue, an acknowledged one is dropped
requeued(me, kind) ==
  IF kind = "retry" THEN queue \cup {me.batch[me.idx]} ELSE queue

Finish(w, me, kind, delay) ==
  /\ worker' = [worker EXCEPT ![w] = signalled(me, kind, delay)]
  /\ queue' = requeued(me, kind)

\* The substrate hands a batch of one message to an idle consumer.  With dup
\* the message also stays queued: at-least-once delivery.
DeliverUpTo(max, w, m, dup) ==
  /\ worker[w].pc = "idle"
  /\ m \in queue
  /\ counters.deliveries < max
  /\ dup => counters.dups < MaxDups
  /\ counters' = [counters EXCEPT !.deliveries = @ + 1,
                                  !.dups = IF dup THEN @ + 1 ELSE @]
  /\ queue' = IF dup THEN queue ELSE queue \ {m}
  /\ worker' = [worker EXCEPT ![w] = [IdleWorker EXCEPT !.pc = "msg", !.batch = <<m>>, !.idx = 1]]
  /\ UNCHANGED <<thoughts, jobs, tags, thought_tags, moods, resp, sum, call, now>>

Deliver(w, m, dup) == DeliverUpTo(MaxDeliveries, w, m, dup)

\* Anything can arrive on the queue from outside the write path: the substrate
\* hands an idle consumer a body that no handler of this program sent.
DeliverForeign(w, m) ==
  /\ worker[w].pc = "idle"
  /\ counters.injected < MaxInjected
  /\ counters.deliveries < MaxDeliveries
  /\ counters' = [counters EXCEPT !.injected = @ + 1, !.deliveries = @ + 1]
  /\ worker' = [worker EXCEPT ![w] = [IdleWorker EXCEPT !.pc = "msg", !.batch = <<m>>, !.idx = 1]]
  /\ UNCHANGED <<thoughts, jobs, tags, thought_tags, moods, queue, resp, sum, call, now>>

\* the dispatch without the processors' test of job.status === 'done'
GetJob_NoDoneTest(w) ==
  LET me == worker[w]
      body == me.batch[me.idx]
      id == boundJobId(body)
      looked == [me EXCEPT !.jobId = id, !.touched = TRUE]
  IN /\ me.pc = "msg"
     /\ IF bodyRejected(body)
        THEN Finish(w, me, "ack", 0)
        ELSE IF ~jobExists(jobs, id)
        THEN /\ worker' = [worker EXCEPT ![w] = [looked EXCEPT !.pc = "catch",
                                                                !.err = ErrJobNotFound]]
             /\ UNCHANGED queue
        ELSE /\ worker' = [worker EXCEPT ![w] = [looked EXCEPT
                  !.pc = IF jobs[id].step \in Steps THEN "mark_processing" ELSE "unknown_step",
                  !.step = jobs[id].step, !.uid = jobs[id].uid,
                  !.thoughtId = jobs[id].thought_id]]
             /\ UNCHANGED queue
     /\ UNCHANGED <<thoughts, jobs, tags, thought_tags, moods, resp, sum, call, now, counters>>

\* queue(): the body check, getAnalysisJobById and the dispatch on job.step
GetJob(w) ==
  LET me == worker[w]
      body == me.batch[me.idx]
      id == boundJobId(body)
      looked == [me EXCEPT !.jobId = id, !.touched = TRUE]
  IN /\ me.pc = "msg"
     /\ IF bodyRejected(body)
        THEN Finish(w, me, "ack", 0)
        ELSE IF ~jobExists(jobs, id)
        THEN /\ worker' = [worker EXCEPT ![w] = [looked EXCEPT !.pc = "catch",
                                                                !.err = ErrJobNotFound]]
             /\ UNCHANGED queue
        ELSE IF jobs[id].step \in Steps /\ jobs[id].status = "done"
        THEN Finish(w, [looked EXCEPT !.step = jobs[id].step], "ack", 0)
        ELSE /\ worker' = [worker EXCEPT ![w] = [looked EXCEPT
                  !.pc = IF jobs[id].step \in Steps THEN "mark_processing" ELSE "unknown_step",
                  !.step = jobs[id].step, !.uid = jobs[id].uid,
                  !.thoughtId = jobs[id].thought_id]]
             /\ UNCHANGED queue
     /\ UNCHANGED <<thoughts, jobs, tags, thought_tags, moods, resp, sum, call, now, counters>>

\* the else branch acknowledging without the markJobDone call
UnknownStep_AckOnly(w) ==
  /\ worker[w].pc = "unknown_step"
  /\ jobs' = jobs
  /\ Finish(w, worker[w], "ack", 0)
  /\ UNCHANGED <<thoughts, tags, thought_tags, moods, resp, sum, call, now, counters>>

\* queue(): markJobDone for a step that is neither tagging nor mood
UnknownStep(w) ==
  /\ worker[w].pc = "unknown_step"
  /\ jobs' = markJobDone(jobs, worker[w].jobId, "skipped:unknown_step")
  /\ Finish(w, worker[w], "ack", 0)
  /\ UNCHANGED <<thoughts, tags, thought_tags, moods, resp, sum, call, now, counters>>

\* processTaggingJob / processMoodJob: await markJobProcessing
MarkProcessing(w) ==
  /\ worker[w].pc = "mark_processing"
  /\ jobs' = markJobProcessing(jobs, worker[w].jobId)
  /\ worker' = [worker EXCEPT ![w].pc = "increment"]
  /\ UNCHANGED <<thoughts, tags, thought_tags, moods, queue, resp, sum, call, now, counters>>

\* processTaggingJob / processMoodJob: await incrementJobAttempts
IncrementAttempts(w) ==
  /\ worker[w].pc = "increment"
  /\ jobs' = incrementJobAttempts(jobs, worker[w].jobId)
  /\ worker' = [worker EXCEPT ![w].pc = "get_thought"]
  /\ UNCHANGED <<thoughts, tags, thought_tags, moods, queue, resp, sum, call, now, counters>>

\* getThoughtById without the deleted_at test
GetThought_IgnoreDeleted(w) ==
  LET me == worker[w]
  IN /\ me.pc = "get_thought"
     /\ worker' = [worker EXCEPT ![w] =
          IF ~thoughtFound(thoughts, me.uid, me.thoughtId)
          THEN [me EXCEPT !.pc = "catch", !.err = ErrThoughtNotFound]
          ELSE [me EXCEPT !.pc = "ai", !.body = thoughts[me.thoughtId].body]]
     /\ UNCHANGED <<thoughts, jobs, tags, thought_tags, moods, queue, resp, sum, call, now, counters>>

\* processTaggingJob / processMoodJob: await getThoughtById and the deleted_at test
GetThought(w) ==
  LET me == worker[w]
  IN /\ me.pc = "get_thought"
     /\ worker' = [worker EXCEPT ![w] =
          IF ~thoughtFound(thoughts, me.uid, me.thoughtId)
          THEN [me EXCEPT !.pc = "catch", !.err = ErrThoughtNotFound]
          ELSE IF thoughts[me.thoughtId].deleted
          THEN [me EXCEPT !.pc = "skip_deleted", !.sawDeleted = TRUE]
          ELSE [me EXCEPT !.pc = "ai", !.body = thoughts[me.thoughtId].body]]
     /\ UNCHANGED <<thoughts, jobs, tags, thought_tags, moods, queue, resp, sum, call, now, counters>>

\* processTaggingJob / processMoodJob: markJobDone({skipped: 'thought_deleted'})
SkipDeleted(w) ==
  /\ worker[w].pc = "skip_deleted"
  /\ jobs' = markJobDone(jobs, worker[w].jobId, "skipped:thought_deleted")
  /\ Finish(w, worker[w], "ack", 0)
  /\ UNCHANGED <<thoughts, tags, thought_tags, moods, resp, sum, call, now, counters>>

\* processTaggingJob: the prompt reads, runTaggerAi, extractAiOutputText,
\* JSON.parse and normalizeAndValidateTags(parsed.tags).  The prompt does not
\* constrain the outcome, which is any of TaggingAiOutcomes.
taggingAfterAi(me, out) ==
  IF out.kind = "transport" THEN [me EXCEPT !.pc = "catch", !.err = ErrTransport]
  ELSE IF out.kind = "non_json" THEN [me EXCEPT !.pc = "catch", !.err = ErrNonJson]
  ELSE IF out.kind = "json_null" THEN [me EXCEPT !.pc = "catch", !.err = ErrTypeError]
  ELSE [me EXCEPT !.pc = "tags_read", !.valid = normalizeAndValidateTags(out.tags).valid]

CallTaggerAi(w, out) ==
  /\ worker[w].pc = "ai"
  /\ worker[w].step = "tagging"
  /\ worker' = [worker EXCEPT ![w] = taggingAfterAi([worker[w] EXCEPT !.aiCalls = @ + 1], out)]
  /\ UNCHANGED <<thoughts, jobs, tags, thought_tags, moods, queue, resp, sum, call, now, counters>>

\* processMoodJob: runTaggerAi, extractAiOutputText, JSON.parse and the two
\* validations of the parsed object
moodAfterAi(me, out) ==
  IF out.kind = "transport" THEN [me EXCEPT !.pc = "catch", !.err = ErrTransport]
  ELSE IF out.kind = "non_json" THEN [me EXCEPT !.pc = "catch", !.err = ErrNonJsonMood]
  ELSE IF ~moodScoreOk(out.mood_score) THEN [me EXCEPT !.pc = "catch", !.err = ErrMoodScore]
  ELSE IF moodExplanation(out.explanation) = <<>>
  THEN [me EXCEPT !.pc = "catch", !.err = ErrExplanation]
  ELSE [me EXCEPT !.pc = "upsert_mood",
                  !.score = ToNumber(out.mood_score).tenths \div 10,
                  !.explanation = moodExplanation(out.explanation)]

CallMoodAi(w, out) ==
  /\ worker[w].pc = "ai"
  /\ worker[w].step = "mood"
  /\ worker' = [worker EXCEPT ![w] = moodAfterAi([worker[w] EXCEPT !.aiCalls = @ + 1], out)]
  /\ UNCHANGED <<thoughts, jobs, tags, thought_tags, moods, queue, resp, sum, call, now, counters>>

\* setThoughtTagsAiOnly: await getThoughtTags, then the diff
TagsRead(w) ==
  LET me == worker[w]
      current == getThoughtTags(tags, thought_tags, me.thoughtId)
  IN /\ me.pc = "tags_read"
     /\ worker' = [worker EXCEPT ![w].pc = "tags_add",
                                 ![w].toAdd = tagsToAdd(current, me.valid),
                                 ![w].toRemove = tagsToRemove(current, me.valid)]
     /\ UNCHANGED <<thoughts, jobs, tags, thought_tags, moods, queue, resp, sum, call, now, counters>>

\* setThoughtTagsAiOnly: the statements of the toAdd block
TagsAdd(w) ==
  LET me == worker[w]
      r == addThoughtTags(tags, thought_tags, me.uid, me.thoughtId, me.toAdd, me.jobId)
  IN /\ me.pc = "tags_add"
     /\ tags' = r.tags
     /\ thought_tags' = r.thought_tags
     /\ worker' = [worker EXCEPT ![w].pc = "tags_remove"]
     /\ UNCHANGED <<thoughts, jobs, moods, queue, resp, sum, call, now, counters>>

\* setThoughtTagsAiOnly: the DELETE of the toRemove block
TagsRemove(w) ==
  LET me == worker[w]
  IN /\ me.pc = "tags_remove"
     /\ thought_tags' = removeThoughtTags(tags, thought_tags, me.uid, me.thoughtId, me.toRemove)
     /\ worker' = [worker EXCEPT ![w].pc = "mark_done", ![w].result = "tags"]
     /\ UNCHANGED <<thoughts, jobs, tags, moods, queue, resp, sum, call, now, counters>>

\* the mood row inserted without the conflict clause
UpsertMood_Append(w) ==
  LET me == worker[w]
  IN /\ me.pc = "upsert_mood"
     /\ moods' = moods \cup {[thought_id |-> me.thoughtId, uid |-> me.uid,
                               mood_score |-> me.score, explanation |-> me.explanation,
                               written_by |-> me.jobId]}
     /\ worker' = [worker EXCEPT ![w].pc = "mark_done", ![w].result = "mood"]
     /\ UNCHANGED <<thoughts, jobs, tags, thought_tags, queue, resp, sum, call, now, counters>>

\* processMoodJob: await upsertThoughtMood
UpsertMood(w) ==
  LET me == worker[w]
  IN /\ me.pc = "upsert_mood"
     /\ moods' = upsertThoughtMood(moods, me.uid, me.thoughtId, me.score, me.explanation, me.jobId)
     /\ worker' = [worker EXCEPT ![w].pc = "mark_done", ![w].result = "mood"]
     /\ UNCHANGED <<thoughts, jobs, tags, thought_tags, queue, resp, sum, call, now, counters>>

\* processTaggingJob / processMoodJob: await markJobDone(resultJson); queue(): message.ack()
MarkDone(w) ==
  /\ worker[w].pc = "mark_done"
  /\ jobs' = markJobDone(jobs, worker[w].jobId, worker[w].result)
  /\ Finish(w, worker[w], "ack", 0)
  /\ UNCHANGED <<thoughts, tags, thought_tags, moods, resp, sum, call, now, counters>>

\* the catch block acknowledging the message instead of retrying it
catchBlock_Ack(w, writeFails) ==
  /\ jobs' = IF writeFails THEN jobs
             ELSE markJobError(jobs, worker[w].jobId, worker[w].err, 0)
  /\ Finish(w, [worker[w] EXCEPT !.markFailed = writeFails], "ack", 0)

\* the catch block without the markJobError call
catchBlock_NoPersist(w, writeFails) ==
  /\ jobs' = jobs
  /\ Finish(w, [worker[w] EXCEPT !.markFailed = FALSE], "retry", RetryDelaySeconds)

\* the catch block without the inner try: a failing markJobError escapes
\* queue() before message.retry is reached
catchBlock_Propagate(w, writeFails) ==
  /\ jobs' = IF writeFails THEN jobs
             ELSE markJobError(jobs, worker[w].jobId, worker[w].err, 0)
  /\ IF writeFails
     THEN /\ worker' = [worker EXCEPT ![w].pc = "end", ![w].markFailed = TRUE]
          /\ UNCHANGED queue
     ELSE Finish(w, [worker[w] EXCEPT !.markFailed = FALSE], "retry", RetryDelaySeconds)

\* queue(): the catch block.  The markJobError write can itself fail; the
\* inner catch ignores that.  Then message.retry({ delaySeconds: 30 }).
catchBlock(w, writeFails) ==
  /\ jobs' = IF writeFails THEN jobs
             ELSE markJobError(jobs, worker[w].jobId, worker[w].err, 0)
  /\ Finish(w, [worker[w] EXCEPT !.markFailed = writeFails], "retry", RetryDelaySeconds)

Catch(w, writeFails) ==
  /\ worker[w].pc = "catch"
  /\ catchBlock(w, writeFails)
  /\ UNCHANGED <<thoughts, tags, thought_tags, moods, resp, sum, call, now, counters>>

\* queue(): ctx.waitUntil(Promise.resolve()) and return
EndBatch(w) ==
  /\ worker[w].pc = "end"
  /\ worker' = [worker EXCEPT ![w] = IdleWorker]
  /\ UNCHANGED <<thoughts, jobs, tags, thought_tags, moods, queue, resp, sum, call, now, counters>>

\* A job row of a step this version does not know, with its message.
EnqueueOtherStep(uid, id) ==
  /\ counters.injected < MaxInjected
  /\ thoughtFound(thoughts, uid, id)
  /\ counters' = [counters EXCEPT !.injected = @ + 1]
  /\ jobs' = createAnalysisJob(jobs, uid, id, "summary")
  /\ queue' = queue \cup {JobMsg(Len(jobs'))}
  /\ UNCHANGED <<thoughts, tags, thought_tags, moods, worker, resp, sum, call, now>>

(* ------------------------------ behaviours ----------------------------- *)
Next ==
  \/ \E u \in Users, b \in Bodies : PostThought(u, b)
  \/ \E u \in Users, i \in 1..MaxThoughts, b \in Bodies : PatchThought(u, i, b)
  \/ \E u \in Users, i \in 1..MaxThoughts : DeleteThought(u, i)
  \/ \E u \in Users, i \in 1..MaxThoughts : EnqueueOtherStep(u, i)
  \/ \E w \in Workers, m \in InjectedBodies : DeliverForeign(w, m)
  \/ \E w \in Workers, m \in queue, d \in BOOLEAN : Deliver(w, m, d)
  \/ \E w \in Workers : GetJob(w)
  \/ \E w \in Workers : UnknownStep(w)
  \/ \E w \in Workers : MarkProcessing(w)
  \/ \E w \in Workers : IncrementAttempts(w)
  \/ \E w \in Workers : GetThought(w)
  \/ \E w \in Workers : SkipDeleted(w)
  \/ \E w \in Workers, o \in TaggingAiOutcomes : CallTaggerAi(w, o)
  \/ \E w \in Workers, o \in MoodAiOutcomes : CallMoodAi(w, o)
  \/ \E w \in Workers : TagsRead(w)
  \/ \E w \in Workers : TagsAdd(w)
  \/ \E w \in Workers : TagsRemove(w)
  \/ \E w \in Workers : UpsertMood(w)
  \/ \E w \in Workers : MarkDone(w)
  \/ \E w \in Workers, f \in BOOLEAN : Catch(w, f)
  \/ \E w \in Workers : EndBatch(w)

Spec == Init /\ [][Next]_vars

\* The summarizeJobs harness: any summary row, one application.
InitSum ==
  /\ InitCommon
  /\ \E r \in SummaryRows : sum = [row |-> r, out |-> NullSummary, applied |-> FALSE]
  /\ call = NoCall

Summarize ==
  /\ ~sum.applied
  /\ sum' = [sum EXCEPT !.out = summarizeJobs(sum.row), !.applied = TRUE]
  /\ UNCHANGED <<thoughts, jobs, tags, thought_tags, moods, queue, worker, resp, call, now, counters>>

NextSum == Summarize

SpecSum == InitSum /\ [][NextSum]_vars

\* The normalizeAndValidateTags harness: any parsed tags value, then the
\* normaliser applied to it and once more to its own valid output.
RawItems ==
  {Str(<<>>), Str(<<" ">>), Str(Foo), Str(Bar), Str(<<" ", "a">>), Str(<<"a", " ">>),
   Str(<<"a", " ", "b">>), Str(<<"a", ".">>), Str(<<"A", "0", "_", "-">>),
   NonStr(<<"0">>), NonStr(<<"n", "u", "l", "l">>)}

RawLists == UNION {[1..k -> RawItems] : k \in 0..MaxItems}

NoRet == [valid |-> <<>>, invalid |-> <<>>]

InitNorm ==
  /\ InitCommon
  /\ sum = IdleSum
  /\ \E a \in BOOLEAN, items \in RawLists :
       call = [fn |-> "normalizeAndValidateTags", arg |-> [isArray |-> a, items |-> items],
               first |-> NoRet, second |-> NoRet, stage |-> 0]

Normalize ==
  /\ call.stage = 0
  /\ call' = [call EXCEPT !.first = normalizeAndValidateTags(call.arg), !.stage = 1]
  /\ UNCHANGED <<thoughts, jobs, tags, thought_tags, moods, queue, worker, resp, sum, now,
                 counters>>

NormalizeAgain ==
  /\ call.stage = 1
  /\ call' = [call EXCEPT
        !.second = normalizeAndValidateTags(
                     Arr([i \in DOMAIN call.first.valid |-> Str(call.first.valid[i])])),
        !.stage = 2]
  /\ UNCHANGED <<thoughts, jobs, tags, thought_tags, moods, queue, worker, resp, sum, now,
                 counters>>

NextNorm == Normalize \/ NormalizeAgain

SpecNorm == InitNorm /\ [][NextNorm]_vars

\* Tagging passes over the thoughts of two owners: thoughts are posted and
\* edited, the substrate delivers the messages of tagging jobs, and the AI
\* output of every pass parses.
Owners == {"u1", "u2"}

DeliverTagging(w, m) ==
  /\ m \in queue
  /\ jobs[m.jobId].step = "tagging"
  /\ DeliverUpTo(MaxPasses, w, m, FALSE)

\* the outcomes whose output parsed to an object: the pass reaches setThoughtTagsAiOnly
ParsedTaggingOutcomes == {o \in TaggingAiOutcomes : o.kind = "json"}

NextTags ==
  \/ \E u \in Owners, b \in Bodies : PostThoughtUpTo(MaxTagged, u, b)
  \/ \E u \in Owners, i \in 1..MaxTagged, b \in Bodies : PatchThought(u, i, b)
  \/ \E w \in Workers, m \in queue : DeliverTagging(w, m)
  \/ \E w \in Workers : GetJob(w)
  \/ \E w \in Workers : MarkProcessing(w)
  \/ \E w \in Workers : IncrementAttempts(w)
  \/ \E w \in Workers : GetThought(w)
  \/ \E w \in Workers, o \in ParsedTaggingOutcomes : CallTaggerAi(w, o)
  \/ \E w \in Workers : TagsRead(w)
  \/ \E w \in Workers : TagsAdd(w)
  \/ \E w \in Workers : TagsRemove(w)
  \/ \E w \in Workers : MarkDone(w)
  \/ \E w \in Workers : EndBatch(w)

SpecTags == Init /\ [][NextTags]_vars

\* The mood validation harness: any parsed mood object, one validation.
\* mood_score is a number or a numeric string, in tenths up to MaxTenths, a
\* string that is no number, or absent.
ParsedMoodScores ==
  {Num(t) : t \in 0..MaxTenths} \cup {NumStr(t) : t \in 0..MaxTenths}
    \cup {Missing, [type |-> "string", tenths |-> 0, nan |-> TRUE]}

ParsedExplanations == {Str(<<"o", "k">>), Str(<<" ">>), NonStr(<<>>)}

InitMood ==
  /\ InitCommon
  /\ sum = IdleSum
  /\ \E sc \in ParsedMoodScores, e \in ParsedExplanations :
       call = [fn |-> "processMoodJob",
               arg |-> [kind |-> "json", mood_score |-> sc, explanation |-> e],
               ret |-> IdleWorker, stage |-> 0]

ValidateMood ==
  /\ call.stage = 0
  /\ call' = [call EXCEPT !.ret = moodAfterAi([IdleWorker EXCEPT !.pc = "ai"], call.arg),
                          !.stage = 1]
  /\ UNCHANGED <<thoughts, jobs, tags, thought_tags, moods, queue, worker, resp, sum, now,
                 counters>>

NextMood == ValidateMood

SpecMood == InitMood /\ [][NextMood]_vars

\* Paging through the thought listing: thoughts of two owners are posted
\* while time passes and soft-deleted; then, on the unchanging table, a client
\* requests the first page and follows next_cursor until it is null.
Tick ==
  /\ call = NoCall
  /\ now < MaxNow
  /\ now' = now + 1
  /\ UNCHANGED <<thoughts, jobs, tags, thought_tags, moods, queue, worker, resp, sum, call,
                 counters>>

FirstPage(uid, limitParam) ==
  /\ call = NoCall
  /\ LET r == getThoughts(uid, limitParam, <<>>)
     IN call' = [fn |-> "listThoughts", uid |-> uid, limit |-> limitParam,
                 pages |-> <<r.thoughts>>, next_cursor |-> r.next_cursor]
  /\ UNCHANGED <<thoughts, jobs, tags, thought_tags, moods, queue, worker, resp, sum, now,
                 counters>>

NextPage ==
  /\ call.fn = "listThoughts"
  /\ ~call.next_cursor.isNull
  /\ LET r == getThoughts(call.uid, call.limit, call.next_cursor.chars)
     IN call' = [call EXCEPT !.pages = Append(@, r.thoughts),
                             !.next_cursor = r.next_cursor]
  /\ UNCHANGED <<thoughts, jobs, tags, thought_tags, moods, queue, worker, resp, sum, now,
                 counters>>

NextList ==
  \/ \E u \in Owners, b \in Bodies : call = NoCall /\ PostThoughtUpTo(MaxListed, u, b)
  \/ \E u \in Owners, i \in 1..MaxListed : call = NoCall /\ DeleteThought(u, i)
  \/ Tick
  \/ \E u \in Owners, p \in 0..MaxPage : FirstPage(u, p)
  \/ NextPage

SpecList == Init /\ [][NextList]_vars

\* Reads of tagged and soft-deleted thoughts: thoughts of two owners are
\* posted, tagged by the pass of their tagging job and soft-deleted; then one
\* read request is served.
\* processTaggingJob for job j run alone from its first statement to its last,
\* with the AI output normalised to names
TaggingPass(j, names) ==
  /\ call = NoCall
  /\ j \in DOMAIN jobs
  /\ jobs[j].step = "tagging" /\ jobs[j].status # "done"
  /\ thoughtFound(thoughts, jobs[j].uid, jobs[j].thought_id)
  /\ ~thoughts[jobs[j].thought_id].deleted
  /\ LET t == jobs[j].thought_id
         current == getThoughtTags(tags, thought_tags, t)
         added == addThoughtTags(tags, thought_tags, jobs[j].uid, t,
                                 tagsToAdd(current, names), j)
     IN /\ tags' = added.tags
        /\ thought_tags' = removeThoughtTags(added.tags, added.thought_tags, jobs[j].uid, t,
                                             tagsToRemove(current, names))
        /\ jobs' = markJobDone(incrementJobAttempts(markJobProcessing(jobs, j), j), j, "tags")
        /\ queue' = queue \ {JobMsg(j)}
  /\ UNCHANGED <<thoughts, moods, worker, resp, sum, call, now, counters>>

NameLists == {<<>>, <<Foo>>, <<Bar>>, <<Foo, Bar>>}

\* the tags parameter: "a", "a,b", "a,a", " a ,,b", "," and "a,c"
TagsParams ==
  {<<"a">>, <<"a", ",", "b">>, <<"a", ",", "a">>, <<" ", "a", " ", ",", ",", "b">>,
   <<",">>, <<"a", ",", "c">>}

\* the cursor parameter: absent, malformed, or any created_at:id
CursorParams ==
  {<<>>, <<"x">>}
    \cup {Digits(c) \o <<":">> \o Digits(i) : c \in 0..MaxNow, i \in 1..MaxTagged}

ReadByTags(uid, limitParam, cursorParam, tagsParam) ==
  /\ call = NoCall
  /\ LET r == getThoughtsByTags(uid, limitParam, cursorParam, tagsParam)
     IN call' = [fn |-> "listThoughtsByTagNames", uid |-> uid, limit |-> limitParam,
                 cursor |-> cursorParam, tagsParam |-> tagsParam, id |-> 0,
                 status |-> r.status, thoughts |-> r.thoughts]
  /\ UNCHANGED <<thoughts, jobs, tags, thought_tags, moods, queue, worker, resp, sum, now,
                 counters>>

ReadList(uid, limitParam, cursorParam) ==
  /\ call = NoCall
  /\ call' = [fn |-> "listThoughts", uid |-> uid, limit |-> limitParam,
              cursor |-> cursorParam, tagsParam |-> <<>>, id |-> 0,
              status |-> 200, thoughts |-> getThoughts(uid, limitParam, cursorParam).thoughts]
  /\ UNCHANGED <<thoughts, jobs, tags, thought_tags, moods, queue, worker, resp, sum, now,
                 counters>>

ReadById(uid, id) ==
  /\ call = NoCall
  /\ call' = [fn |-> "getThoughtById", uid |-> uid, limit |-> 0,
              cursor |-> <<>>, tagsParam |-> <<>>, id |-> id,
              status |-> getThought(uid, id),
              thoughts |-> IF getThought(uid, id) = 200 THEN <<id>> ELSE <<>>]
  /\ UNCHANGED <<thoughts, jobs, tags, thought_tags, moods, queue, worker, resp, sum, now,
                 counters>>

NextReads ==
  \/ \E u \in Owners, b \in Bodies : call = NoCall /\ PostThoughtUpTo(MaxTagged, u, b)
  \/ \E u \in Owners, i \in 1..MaxTagged : call = NoCall /\ DeleteThought(u, i)
  \/ Tick
  \/ \E j \in DOMAIN jobs, names \in NameLists : TaggingPass(j, names)
  \/ \E u \in Owners, p \in 1..MaxTagged, c \in CursorParams, t \in TagsParams :
       ReadByTags(u, p, c, t)
  \/ \E u \in Owners, p \in 1..MaxTagged, c \in CursorParams : ReadList(u, p, c)
  \/ \E u \in Owners, i \in 1..MaxTagged : ReadById(u, i)

SpecReads == Init /\ [][NextReads]_vars

\* The utcRangeForLocalDay harness: any day of some years, any of some
\* offsets; the range of the day and of the day after it.
DayYears == {50, 1900, 1969, 1970, 2000, 2023, 2024}
DayOffsets == {-840, -120, -1, 0, 480, 840}

DayAfter(day) ==
  IF day.d < MonthDays(day.y, day.m) THEN [day EXCEPT !.d = @ + 1]
  ELSE IF day.m < 12 THEN [y |-> day.y, m |-> day.m + 1, d |-> 1]
  ELSE [y |-> day.y + 1, m |-> 1, d |-> 1]

NoRange == [start |-> InDay(0, 0, 86400), endExclusive |-> InDay(0, 0, 86400)]

InitDay ==
  /\ InitCommon
  /\ sum = IdleSum
  /\ \E y \in DayYears, m \in 1..12, o \in DayOffsets :
       \E d \in 1..MonthDays(y, m) :
         call = [fn |-> "utcRangeForLocalDay", day |-> [y |-> y, m |-> m, d |-> d],
                 tzOffsetMinutes |-> o, stage |-> 0,
                 range |-> NoRange, rangeAfter |-> NoRange]

RangeOfDay ==
  /\ call.stage = 0
  /\ call' = [call EXCEPT
        !.range = utcRangeForLocalDay(call.day.y, call.day.m, call.day.d, call.tzOffsetMinutes),
        !.stage = 1]
  /\ UNCHANGED <<thoughts, jobs, tags, thought_tags, moods, queue, worker, resp, sum, now,
                 counters>>

RangeOfDayAfter ==
  /\ call.stage = 1
  /\ LET next == DayAfter(call.day)
     IN call' = [call EXCEPT
           !.rangeAfter = utcRangeForLocalDay(next.y, next.m, next.d, call.tzOffsetMinutes),
           !.stage = 2]
  /\ UNCHANGED <<thoughts, jobs, tags, thought_tags, moods, queue, worker, resp, sum, now,
                 counters>>

NextDay == RangeOfDay \/ RangeOfDayAfter

SpecDay == InitDay /\ [][NextDay]_vars

\* A paging session on a table that changes between the requests: thoughts
\* are posted and soft-deleted and the clock advances at any moment.  The
\* session notes the owner's listed thoughts at its first request.
OpenListing(uid, limitParam) ==
  /\ call = NoCall
  /\ LET r == getThoughts(uid, limitParam, <<>>)
     IN call' = [fn |-> "listThoughts", uid |-> uid, limit |-> limitParam,
                 pages |-> <<r.thoughts>>, next_cursor |-> r.next_cursor,
                 atStart |-> {i \in DOMAIN thoughts :
                                thoughts[i].uid = uid /\ ~thoughts[i].deleted}]
  /\ UNCHANGED <<thoughts, jobs, tags, thought_tags, moods, queue, worker, resp, sum, now,
                 counters>>

ClockTick ==
  /\ now < MaxNow
  /\ now' = now + 1
  /\ UNCHANGED <<thoughts, jobs, tags, thought_tags, moods, queue, worker, resp, sum, call,
                 counters>>

NextPaging ==
  \/ \E u \in Owners, b \in Bodies : PostThoughtUpTo(MaxListed, u, b)
  \/ \E u \in Owners, i \in 1..MaxListed : DeleteThought(u, i)
  \/ ClockTick
  \/ \E u \in Owners, p \in 1..MaxPage : OpenListing(u, p)
  \/ NextPage

SpecPaging == Init /\ [][NextPaging]_vars

\* A paging session on the tag listing while tagging passes run between the
\* requests.  A pass is taken in one step and writes the clock into
\* last_used_at, as unixepoch() does.
TaggingPassAt(j, names) ==
  /\ j \in DOMAIN jobs
  /\ jobs[j].step = "tagging" /\ jobs[j].status # "done"
  /\ thoughtFound(thoughts, jobs[j].uid, jobs[j].thought_id)
  /\ ~thoughts[jobs[j].thought_id].deleted
  /\ LET t == jobs[j].thought_id
         current == getThoughtTags(tags, thought_tags, t)
         added == addThoughtTags(tags, thought_tags, jobs[j].uid, t,
                                 tagsToAdd(current, names), now)
     IN /\ tags' = added.tags
        /\ thought_tags' = removeThoughtTags(added.tags, added.thought_tags, jobs[j].uid, t,
                                             tagsToRemove(current, names))
        /\ jobs' = markJobDone(incrementJobAttempts(markJobProcessing(jobs, j), j), j, "tags")
        /\ queue' = queue \ {JobMsg(j)}
  /\ UNCHANGED <<thoughts, moods, worker, resp, sum, call, now, counters>>

OpenTagListing(uid, limitParam) ==
  /\ call = NoCall
  /\ LET r == getTags(uid, limitParam, <<>>)
     IN call' = [fn |-> "listUserTagsWithStats", uid |-> uid, limit |-> limitParam,
                 pages |-> <<r.tags>>, next_cursor |-> r.next_cursor,
                 atStart |-> {i \in DOMAIN tags : tags[i].uid = uid}]
  /\ UNCHANGED <<thoughts, jobs, tags, thought_tags, moods, queue, worker, resp, sum, now,
                 counters>>

NextTagPage ==
  /\ call.fn = "listUserTagsWithStats"
  /\ ~call.next_cursor.isNull
  /\ LET r == getTags(call.uid, call.limit, call.next_cursor.chars)
     IN call' = [call EXCEPT !.pages = Append(@, r.tags),
                             !.next_cursor = r.next_cursor]
  /\ UNCHANGED <<thoughts, jobs, tags, thought_tags, moods, queue, worker, resp, sum, now,
                 counters>>

NextTagPaging ==
  \/ \E u \in Users, b \in Bodies : PostThoughtUpTo(MaxTagged, u, b)
  \/ ClockTick
  \/ \E j \in DOMAIN jobs, names \in NameLists : TaggingPassAt(j, names)
  \/ \E u \in Users, p \in 1..MaxPage : OpenTagListing(u, p)
  \/ NextTagPage

SpecTagPaging == Init /\ [][NextTagPaging]_vars

\* Batches of two messages: the substrate hands a consumer two bodies at once,
\* job messages of the queue or bodies from elsewhere.
DeliverBatch(w, m1, m2) ==
  /\ worker[w].pc = "idle"
  /\ m1 \in queue \cup InjectedBodies
  /\ m2 \in queue \cup InjectedBodies
  /\ m1 # m2
  /\ counters.deliveries < MaxDeliveries
  /\ counters' = [counters EXCEPT !.deliveries = @ + 1]
  /\ queue' = queue \ {m1, m2}
  /\ worker' = [worker EXCEPT ![w] = [IdleWorker EXCEPT !.pc = "msg", !.batch = <<m1, m2>>,
                                                        !.idx = 1]]
  /\ UNCHANGED <<thoughts, jobs, tags, thought_tags, moods, resp, sum, call, now>>

\* one consumer takes the batches
BatchWorkers == {"w1"}

NextBatch ==
  \/ \E u \in Users, b \in Bodies : PostThought(u, b)
  \/ \E u \in Users, i \in 1..MaxThoughts : DeleteThought(u, i)
  \/ \E w \in BatchWorkers, m1 \in queue \cup InjectedBodies, m2 \in queue \cup InjectedBodies :
       DeliverBatch(w, m1, m2)
  \/ \E w \in BatchWorkers : GetJob(w)
  \/ \E w \in BatchWorkers : MarkProcessing(w)
  \/ \E w \in BatchWorkers : IncrementAttempts(w)
  \/ \E w \in BatchWorkers : GetThought(w)
  \/ \E w \in BatchWorkers : SkipDeleted(w)
  \/ \E w \in BatchWorkers, o \in TaggingAiOutcomes : CallTaggerAi(w, o)
  \/ \E w \in BatchWorkers, o \in MoodAiOutcomes : CallMoodAi(w, o)
  \/ \E w \in BatchWorkers : TagsRead(w)
  \/ \E w \in BatchWorkers : TagsAdd(w)
  \/ \E w \in BatchWorkers : TagsRemove(w)
  \/ \E w \in BatchWorkers : UpsertMood(w)
  \/ \E w \in BatchWorkers : MarkDone(w)
  \/ \E w \in BatchWorkers, f \in BOOLEAN : Catch(w, f)
  \/ \E w \in BatchWorkers : EndBatch(w)

SpecBatch == Init /\ [][NextBatch]_vars

\* Two tenants: requests of either owner on tables that hold rows of both.
\* A mood pass in one step (processMoodJob with a valid answer).
MoodPass(j) ==
  /\ call = NoCall
  /\ j \in DOMAIN jobs
  /\ jobs[j].step = "mood" /\ jobs[j].status # "done"
  /\ thoughtFound(thoughts, jobs[j].uid, jobs[j].thought_id)
  /\ ~thoughts[jobs[j].thought_id].deleted
  /\ moods' = upsertThoughtMood(moods, jobs[j].uid, jobs[j].thought_id, 30, "ok", j)
  /\ jobs' = markJobDone(incrementJobAttempts(markJobProcessing(jobs, j), j), j, "mood")
  /\ queue' = queue \ {JobMsg(j)}
  /\ UNCHANGED <<thoughts, tags, thought_tags, worker, resp, sum, call, now, counters>>

ReadStatus(uid, id) ==
  /\ call = NoCall
  /\ call' = [fn |-> "analysisStatus", uid |-> uid, limit |-> 0,
              cursor |-> <<>>, tagsParam |-> <<>>, id |-> id,
              status |-> 200, thoughts |-> <<>>, summary |-> analysisStatus(uid, id)]
  /\ UNCHANGED <<thoughts, jobs, tags, thought_tags, moods, queue, worker, resp, sum, now,
                 counters>>

\* the requests one owner can make
WriteAs(uid) ==
  \/ \E b \in Bodies : call = NoCall /\ PostThoughtUpTo(MaxTagged, uid, b)
  \/ \E i \in 1..MaxTagged, b \in Bodies : call = NoCall /\ PatchThought(uid, i, b)
  \/ \E i \in 1..MaxTagged : call = NoCall /\ DeleteThought(uid, i)

ReadAs(uid) ==
  \/ \E t \in {<<"a">>, <<"a", ",", "b">>} : ReadByTags(uid, MaxTagged, <<>>, t)
  \/ ReadList(uid, MaxTagged, <<>>)
  \/ \E i \in 1..MaxTagged : ReadById(uid, i)
  \/ \E i \in 1..MaxTagged : ReadStatus(uid, i)

NextIso ==
  \/ \E u \in Owners : WriteAs(u)
  \/ \E u \in Owners : ReadAs(u)
  \/ \E j \in DOMAIN jobs, names \in {<<Foo>>, <<Foo, Bar>>} : TaggingPass(j, names)
  \/ \E j \in DOMAIN jobs : MoodPass(j)

SpecIso == Init /\ [][NextIso]_vars

\* Progress: the jobs of the posted thoughts, every retried message redelivered,
\* every storage call succeeding, and an AI that answers validly at the latest
\* on the pass after MaxRetries passes of the job.
LiveJobs == 2 * MaxThoughts
LiveDeliveries == LiveJobs * (MaxRetries + 1)

AiMayAnswer(w, after) ==
  after.pc = "catch" => jobs[worker[w].jobId].attempts <= MaxRetries

LiveDeliver(j) == \E w \in Workers : DeliverUpTo(LiveDeliveries, w, JobMsg(j), FALSE)

LiveStep(w) ==
  \/ GetJob(w)
  \/ MarkProcessing(w)
  \/ IncrementAttempts(w)
  \/ GetThought(w)
  \/ SkipDeleted(w)
  \/ \E o \in TaggingAiOutcomes :
       CallTaggerAi(w, o) /\ AiMayAnswer(w, taggingAfterAi(worker[w], o))
  \/ \E o \in MoodAiOutcomes :
       CallMoodAi(w, o) /\ AiMayAnswer(w, moodAfterAi(worker[w], o))
  \/ TagsRead(w)
  \/ TagsAdd(w)
  \/ TagsRemove(w)
  \/ UpsertMood(w)
  \/ MarkDone(w)
  \/ Catch(w, FALSE)
  \/ EndBatch(w)

NextLive ==
  \/ \E u \in Users, b \in Bodies : PostThought(u, b)
  \/ \E u \in Users, i \in 1..MaxThoughts : DeleteThought(u, i)
  \/ \E j \in 1..LiveJobs : LiveDeliver(j)
  \/ \E w \in Workers : LiveStep(w)

\* The runtime resumes every awaited call of a consumer, and the substrate
\* delivers a message that is on the queue (again, after a retry).
SpecLive ==
  /\ Init
  /\ [][NextLive]_vars
  /\ \A w \in Workers : WF_vars(LiveStep(w))
  /\ \A j \in 1..LiveJobs : SF_vars(LiveDeliver(j))

\* parseTzOffsetMinutesParam on its own: one raw parameter, parsed once
TzChars == {"-", "0", "5", "9", ".", "f", " "}
TzRaws ==
  {NoParam, Param(<<"I", "n", "f", "i", "n", "i", "t", "y">>)}
    \cup {Param(str) : str \in UNION {[1..k -> TzChars] : k \in 0..MaxRaw}}

InitTz ==
  /\ InitCommon
  /\ sum = IdleSum
  /\ \E raw \in TzRaws :
       call = [fn |-> "parseTzOffsetMinutesParam", raw |-> raw, ret |-> 0, stage |-> 0]

ParseTzOffset ==
  /\ call.stage = 0
  /\ call' = [call EXCEPT !.ret = parseTzOffsetMinutesParam(call.raw), !.stage = 1]
  /\ UNCHANGED <<thoughts, jobs, tags, thought_tags, moods, queue, worker, resp, sum, now,
                 counters>>

NextTz == ParseTzOffset

SpecTz == InitTz /\ [][NextTz]_vars

(* ------------------- edits against passes in flight -------------------- *)
\* The bodies an edit can give a thought, and a tagger that answers by the
\* body in its prompt alone: one valid tag per body.
Revisions == {"b1", "b2"}
TaggerAnswer(body) ==
  [kind |-> "json", tags |-> Arr(<<Str(IF body = "b1" THEN Foo ELSE Bar)>>)]
MoodAnswer == [kind |-> "json", mood_score |-> Num(30), explanation |-> Str(<<"o", "k">>)]

\* one delivery for each job a thought can have: two per POST and per PATCH
EditDeliveries == 2 * MaxThoughts * (1 + MaxEdits)

NextEdit ==
  \/ \E u \in Users, b \in Bodies : PostThought(u, b)
  \/ \E u \in Users, i \in 1..MaxThoughts, b \in Revisions : PatchThought(u, i, b)
  \/ \E w \in Workers, m \in queue : DeliverUpTo(EditDeliveries, w, m, FALSE)
  \/ \E w \in Workers : GetJob(w)
  \/ \E w \in Workers : MarkProcessing(w)
  \/ \E w \in Workers : IncrementAttempts(w)
  \/ \E w \in Workers : GetThought(w)
  \/ \E w \in Workers : CallTaggerAi(w, TaggerAnswer(worker[w].body))
  \/ \E w \in Workers : CallMoodAi(w, MoodAnswer)
  \/ \E w \in Workers : TagsRead(w)
  \/ \E w \in Workers : TagsAdd(w)
  \/ \E w \in Workers : TagsRemove(w)
  \/ \E w \in Workers : UpsertMood(w)
  \/ \E w \in Workers : MarkDone(w)
  \/ \E w \in Workers : EndBatch(w)

SpecEdit == Init /\ [][NextEdit]_vars

(* ------------------------------- claims -------------------------------- *)
AiErrors == {ErrTransport, ErrNonJson, ErrNonJsonMood, ErrTypeError, ErrMoodScore, ErrExplanation}
Ack == Signal("ack", 0)
Retry30 == Signal("retry", 30)
CurrentBody(me) == me.batch[me.idx]

\* C1: a job row whose status is done keeps status done in every later state,
\* whatever the interleaving of deliveries of its message.
C1_DoneIsTerminal ==
  [][\A j \in DOMAIN jobs : jobs[j].status = "done" => jobs'[j].status = "done"]_vars

\* C2: a job row starts with attempts 0 and no step ever lowers its attempts.
C2_AttemptsNonDecreasing ==
  [][/\ \A j \in DOMAIN jobs : j \in DOMAIN jobs' /\ jobs'[j].attempts >= jobs[j].attempts
     /\ \A j \in (DOMAIN jobs') \ (DOMAIN jobs) : jobs'[j].attempts = 0]_vars

C2_Witness ==
  \E j \in DOMAIN jobs : jobs[j].attempts = 2 /\ jobs[j].status = "error"

C4_SummarizeJobs ==
  sum.applied =>
    LET r == sum.row
        o == sum.out
    IN IF ~r.present \/ r.total <= 0
       THEN o.isNull
       ELSE /\ ~o.isNull
            /\ r.error > 0 => o.status = "error"
            /\ (r.error <= 0 /\ r.processing > 0) => o.status = "processing"
            /\ (r.error <= 0 /\ r.processing <= 0 /\ r.queued > 0) => o.status = "queued"
            /\ (r.error <= 0 /\ r.processing <= 0 /\ r.queued <= 0) => o.status = "done"
            /\ o.total = r.total /\ o.queued = r.queued /\ o.processing = r.processing
            /\ o.done = r.done /\ o.error = r.error
            /\ o.last_updated_at = r.last_updated_at

C4_Witness ==
  /\ sum.applied
  /\ sum.row.present /\ sum.row.total = 2
  /\ sum.row.error = 1 /\ sum.row.processing = 1 /\ sum.row.queued = 1
  /\ sum.out.status = "error"

\* C5: whenever some job row of a thought has status error, the status the
\* owner reads for that thought is error.
C5_ErrorSurfaces ==
  \A t \in DOMAIN thoughts :
    (\E j \in DOMAIN jobs : jobs[j].thought_id = t /\ jobs[j].status = "error")
      => /\ ~analysisStatus(thoughts[t].uid, t).isNull
         /\ analysisStatus(thoughts[t].uid, t).status = "error"

C5_Witness ==
  \E t \in DOMAIN thoughts : \E j, k \in DOMAIN jobs :
    /\ jobs[j].thought_id = t /\ jobs[j].status = "error" /\ JobMsg(j) \in queue
    /\ jobs[k].thought_id = t /\ jobs[k].status = "processing"
    /\ analysisStatus(thoughts[t].uid, t).status = "error"

\* C6: the step that handles a failure thrown by the AI call, the JSON parse or
\* the validation stores status error and the thrown message on the job (when
\* the markJobError write goes through), does not acknowledge, and requests
\* redelivery after 30 seconds.
C6_FailureMarksErrorAndRetries ==
  [][\A w \in Workers :
       (worker[w].pc = "catch" /\ worker'[w].pc # "catch" /\ worker[w].err \in AiErrors) =>
         /\ ~worker'[w].markFailed =>
              /\ jobs'[worker[w].jobId].status = "error"
              /\ jobs'[worker[w].jobId].error = worker[w].err
         /\ worker'[w].signals = Append(worker[w].signals, Retry30)
         /\ CurrentBody(worker[w]) \in queue']_vars

C6_Witness ==
  \E w \in Workers :
    /\ worker[w].pc = "end" /\ worker[w].err \in AiErrors /\ ~worker[w].markFailed
    /\ worker[w].signals = <<Retry30>>
    /\ jobs[worker[w].jobId].status = "error"
    /\ jobs[worker[w].jobId].error = worker[w].err

\* C7: a pass that failed ends with exactly a retry signalled for its message,
\* never an ack and never nothing, also when the markJobError write failed (and
\* then no job row is changed).
C7_MarkErrorFailureStillRetries ==
  [][\A w \in Workers :
       (worker[w].pc # "end" /\ worker'[w].pc = "end" /\ worker'[w].err # NULL) =>
         /\ worker'[w].signals = Append(worker[w].signals, Retry30)
         /\ CurrentBody(worker[w]) \in queue'
         /\ worker'[w].markFailed => jobs' = jobs]_vars

C7_Witness ==
  \E w \in Workers :
    /\ worker[w].pc = "end" /\ worker[w].markFailed /\ worker[w].err \in AiErrors
    /\ worker[w].signals = <<Retry30>>
    /\ jobs[worker[w].jobId].status = "processing"

\* C8: a message with no body, without jobId, or with a jobId that is not an
\* integer ends acknowledged, not retried, and without any storage statement.
C8_MalformedAcked ==
  \A w \in Workers :
    (worker[w].pc # "idle"
       /\ CurrentBody(worker[w]).kind \in {"nobody", "nojobid", "string", "fraction"})
      => /\ ~worker[w].touched
         /\ worker[w].pc \in {"msg", "end"}
         /\ worker[w].pc = "end" => worker[w].signals = <<Ack>>

\* C9: a pass whose job lookup or thought lookup misses does not request
\* redelivery of the message.
C9_NotFoundNotRetried ==
  \A w \in Workers :
    (worker[w].pc = "end" /\ worker[w].err \in {ErrJobNotFound, ErrThoughtNotFound})
      => \A i \in DOMAIN worker[w].signals : worker[w].signals[i].sig # "retry"

\* C10: a pass that loads a soft-deleted thought goes to the skip, makes no AI
\* call, changes no tag, association or mood row, marks the job done with result
\* skipped: thought_deleted and no error, and acknowledges without requeueing.
C10_DeletedThoughtSkipped ==
  [][\A w \in Workers :
       /\ (worker[w].pc = "get_thought" /\ worker'[w].pc # "get_thought"
             /\ thoughtFound(thoughts, worker[w].uid, worker[w].thoughtId)
             /\ thoughts[worker[w].thoughtId].deleted)
            => worker'[w].pc = "skip_deleted" /\ worker'[w].sawDeleted
       /\ worker'[w].sawDeleted =>
            /\ worker'[w].aiCalls = 0
            /\ worker'[w].err = NULL
            /\ worker'[w].pc \in {"skip_deleted", "end"}
       /\ (worker[w].pc = "skip_deleted" /\ worker'[w].pc # "skip_deleted") =>
            /\ tags' = tags /\ thought_tags' = thought_tags /\ moods' = moods
            /\ jobs'[worker[w].jobId].status = "done"
            /\ jobs'[worker[w].jobId].result = "skipped:thought_deleted"
            /\ jobs'[worker[w].jobId].error = NULL
            /\ worker'[w].signals = Append(worker[w].signals, Ack)
            /\ queue' = queue]_vars

C10_Witness ==
  \E w \in Workers :
    /\ worker[w].pc = "end" /\ worker[w].sawDeleted
    /\ worker[w].signals = <<Ack>>
    /\ thoughts[worker[w].thoughtId].deleted
    /\ jobs[worker[w].jobId].status = "done"
    /\ jobs[worker[w].jobId].result = "skipped:thought_deleted"

Substrings(s) == {SubSeq(s, a, b) : a \in 1..(Len(s) + 1), b \in 0..Len(s)}
IsTrimOf(t, s) ==
  /\ \E i, j \in 0..Len(s) :
       /\ i + j <= Len(s)
       /\ t = SubSeq(s, i + 1, Len(s) - j)
       /\ \A k \in 1..i : s[k] \in Whitespace
       /\ \A k \in (Len(s) - j + 1)..Len(s) : s[k] \in Whitespace
  /\ t # <<>> => t[1] \notin Whitespace /\ t[Len(t)] \notin Whitespace
TrimOf(s) == CHOOSE t \in Substrings(s) : IsTrimOf(t, s)
Grammar(t) == t # <<>> /\ \A k \in DOMAIN t : t[k] \in {"a", "b", "A", "0", "_", "-"}
Rejected(item) == ~item.isString \/ (TrimOf(item.chars) # <<>> /\ ~Grammar(TrimOf(item.chars)))

\* C12: normalizeAndValidateTags puts into valid exactly the distinct trimmed
\* string entries that match the tag grammar, each once; puts into invalid, in
\* input order, exactly the non-string entries stringified and the non-empty
\* trimmed strings that fail the grammar; puts empty and whitespace-only strings
\* into neither; and yields empty valid and invalid for an input that is not an array.
C12_NormalizeSplitsExactly ==
  call.stage >= 1 =>
    LET items == IF call.arg.isArray THEN call.arg.items ELSE <<>>
        v == call.first.valid
        rej == SelectSeq(items, Rejected)
    IN /\ \A i, j \in DOMAIN v : v[i] = v[j] => i = j
       /\ SeqRange(v) = {TrimOf(items[k].chars) : k \in
                           {k \in DOMAIN items :
                              items[k].isString /\ Grammar(TrimOf(items[k].chars))}}
       /\ call.first.invalid =
            [i \in DOMAIN rej |-> IF rej[i].isString THEN TrimOf(rej[i].chars)
                                   ELSE rej[i].chars]

C12_Witness ==
  /\ call.stage >= 1 /\ call.arg.isArray
  /\ call.arg.items = <<Str(<<" ", "a">>), Str(Foo), NonStr(<<"0">>)>>
  /\ call.first.valid = <<Foo>>
  /\ call.first.invalid = << <<"0">> >>

\* C13: normalizeAndValidateTags applied to the valid output of a first
\* application returns the same valid names and an empty invalid list.
C13_NormalizeIdempotent ==
  call.stage = 2 =>
    /\ SeqRange(call.second.valid) = SeqRange(call.first.valid)
    /\ call.second.valid = call.first.valid
    /\ call.second.invalid = <<>>

C13_Witness ==
  /\ call.stage = 2
  /\ call.arg.items = <<Str(<<"a", " ">>), Str(<<"a", " ", "b">>), Str(Bar)>>
  /\ call.first.invalid # <<>>
  /\ call.second.valid = <<Foo, Bar>>
  /\ call.second.invalid = <<>>

\* the names setThoughtTagsAiOnly read as current, and the links of other thoughts
CurrentRead(me) == me.toRemove \cup (SeqRange(me.valid) \ SeqRange(me.toAdd))
OtherLinks(tt, t) == {l \in tt : l[1] # t}

\* C14: a tagging pass with valid set V, when nobody else changed the thought's
\* tags since the pass read them, leaves the thought associated with exactly V:
\* the add block links every name of V through a tag row of the owner (created
\* if missing), the remove block unlinks every other name, and neither block
\* changes an association of another thought.
C14_TagSetReplaced ==
  [][\A w \in Workers :
       LET me == worker[w]
           V == SeqRange(me.valid)
           t == me.thoughtId
       IN /\ (me.pc = "tags_add" /\ worker'[w].pc = "tags_remove"
                /\ getThoughtTags(tags, thought_tags, t) = CurrentRead(me)) =>
                 /\ getThoughtTags(tags', thought_tags', t) = CurrentRead(me) \cup V
                 /\ \A n \in V : \E i \in DOMAIN tags' :
                      /\ tags'[i].uid = me.uid /\ tags'[i].name = n
                      /\ <<t, i>> \in thought_tags'
                 /\ \A i \in DOMAIN tags :
                      /\ i \in DOMAIN tags'
                      /\ tags'[i].uid = tags[i].uid /\ tags'[i].name = tags[i].name
                 /\ OtherLinks(thought_tags', t) = OtherLinks(thought_tags, t)
          /\ (me.pc = "tags_remove" /\ worker'[w].pc = "mark_done"
                /\ getThoughtTags(tags, thought_tags, t) = CurrentRead(me) \cup V) =>
                 /\ getThoughtTags(tags', thought_tags', t) = V
                 /\ \A l \in thought_tags' : l[1] = t => tags'[l[2]].uid = me.uid
                 /\ tags' = tags
                 /\ OtherLinks(thought_tags', t) = OtherLinks(thought_tags, t)]_vars

C14_Witness ==
  \E w \in Workers : \E t2 \in DOMAIN thoughts :
    /\ worker[w].pc = "mark_done" /\ worker[w].result = "tags"
    /\ worker[w].valid = <<Bar>> /\ worker[w].toRemove = {Foo}
    /\ getThoughtTags(tags, thought_tags, worker[w].thoughtId) = {Bar}
    /\ t2 # worker[w].thoughtId
    /\ thoughts[t2].uid = worker[w].uid
    /\ getThoughtTags(tags, thought_tags, t2) = {Foo}

\* C15: when a tagging pass ends its tag replacement, every tag the thought now
\* carries has last_used_at written by that pass, the tags the pass newly
\* associated and the tags that were associated before and are kept.
C15_LastUsedBumped ==
  [][\A w \in Workers :
       (worker[w].pc = "tags_remove" /\ worker'[w].pc = "mark_done"
          /\ getThoughtTags(tags, thought_tags, worker[w].thoughtId)
               = CurrentRead(worker[w]) \cup SeqRange(worker[w].valid)) =>
         \A l \in thought_tags' :
           l[1] = worker[w].thoughtId => tags'[l[2]].last_used_at = worker[w].jobId]_vars

\* C16: mood validation lets a parsed mood_score through exactly when it is a
\* JSON number that is an integer from 1 to 5; every other value, a numeric
\* string included, is rejected with the invalid mood_score error and the pass
\* does not reach the upsert of the mood row.
C16_MoodScoreValidation ==
  call.stage = 1 =>
    LET sc == call.arg.mood_score
        wanted == /\ sc.type = "number" /\ ~sc.nan
                  /\ sc.tenths % 10 = 0 /\ sc.tenths >= 10 /\ sc.tenths <= 50
    IN /\ wanted <=> call.ret.err # ErrMoodScore
       /\ ~wanted => call.ret.pc = "catch"

\* C17: whatever the sequence and interleaving of mood passes, a thought has at
\* most one mood row and its score is from 1 to 5; the upsert of a pass leaves
\* the thought's single row holding that pass's score, explanation and writer,
\* and no other step changes a mood row, so the row is that of the last upsert.
C17_OneMoodRowLastWriterWins ==
  [][/\ \A t \in DOMAIN thoughts' : Cardinality({m \in moods' : m.thought_id = t}) <= 1
     /\ \A m \in moods' : m.mood_score \in 1..5 /\ m.thought_id \in DOMAIN thoughts'
     /\ \A w \in Workers :
          (worker[w].pc = "upsert_mood" /\ worker'[w].pc # "upsert_mood") =>
            /\ {m \in moods' : m.thought_id = worker[w].thoughtId}
                 = {[thought_id |-> worker[w].thoughtId, uid |-> worker[w].uid,
                     mood_score |-> worker[w].score,
                     explanation |-> worker[w].explanation,
                     written_by |-> worker[w].jobId]}
            /\ {m \in moods' : m.thought_id # worker[w].thoughtId}
                 = {m \in moods : m.thought_id # worker[w].thoughtId}
     /\ (\A w \in Workers : ~(worker[w].pc = "upsert_mood" /\ worker'[w].pc # "upsert_mood"))
          => moods' = moods]_vars

C17_Witness ==
  \E m \in moods : \E w \in Workers :
    /\ worker[w].pc = "end" /\ worker[w].result = "mood"
    /\ worker[w].thoughtId = m.thought_id
    /\ worker[w].jobId # m.written_by
    /\ m.mood_score = 1 /\ m.explanation = Bar

RECURSIVE Concat(_)
Concat(pages) == IF pages = <<>> THEN <<>> ELSE Head(pages) \o Concat(Tail(pages))

\* C18: on an unchanging table, the pages obtained without cursor and then
\* with each returned next_cursor, concatenated, are exactly the owner's
\* non-deleted thoughts, each once, in (created_at DESC, id DESC) order, also
\* when thoughts share a created_at; no page is longer than the page size.
C18_PagesCoverListing ==
  (call.fn = "listThoughts" /\ call.next_cursor.isNull) =>
    LET all == Concat(call.pages)
    IN /\ SeqRange(all) = {i \in DOMAIN thoughts :
                             thoughts[i].uid = call.uid /\ ~thoughts[i].deleted}
       /\ \A j, k \in DOMAIN all : all[j] = all[k] => j = k
       /\ \A j, k \in DOMAIN all : j < k =>
            \/ thoughts[all[j]].created_at > thoughts[all[k]].created_at
            \/ (thoughts[all[j]].created_at = thoughts[all[k]].created_at /\ all[j] > all[k])
       /\ \A q \in DOMAIN call.pages :
            Len(call.pages[q]) <= (IF call.limit >= 1 THEN call.limit ELSE 1)

C18_Witness ==
  /\ call.fn = "listThoughts" /\ call.next_cursor.isNull
  /\ call.limit = 1
  /\ call.pages = << <<3>>, <<2>>, <<1>>, <<>> >>
  /\ thoughts[3].created_at = thoughts[2].created_at
  /\ thoughts[2].created_at > thoughts[1].created_at

\* the names a request asks for: the pieces of the tags parameter between
\* commas, without surrounding blanks, the empty ones left out
Requested(tagsParam) ==
  {t \in {Trim(x) : x \in SeqRange(splitComma(tagsParam, <<>>))} : t # <<>>}

\* C19: a by-tags request that names at least one tag and whose page can hold
\* every thought returns exactly the owner's non-deleted thoughts that carry
\* every requested name, whether or not the list repeats a name.
C19_ByTagsIsIntersection ==
  (call.fn = "listThoughtsByTagNames" /\ Requested(call.tagsParam) # {}
     /\ ~parseCursor(call.cursor).present /\ call.limit >= Len(thoughts)) =>
    /\ call.status = 200
    /\ SeqRange(call.thoughts) =
         {i \in DOMAIN thoughts :
            /\ thoughts[i].uid = call.uid /\ ~thoughts[i].deleted
            /\ Requested(call.tagsParam) \subseteq getThoughtTags(tags, thought_tags, i)}

\* C20: a soft-deleted thought is in no page of the thought listing and of the
\* by-tags listing, for any cursor and limit, and GET by id answers 404 for
\* it, while getThoughtById, which job processing uses, still finds its row
\* with deleted_at set.
C20_DeletedHiddenFromReads ==
  /\ call.fn # "none" => \A i \in SeqRange(call.thoughts) : ~thoughts[i].deleted
  /\ \A i \in DOMAIN thoughts :
       thoughts[i].deleted =>
         /\ getThought(thoughts[i].uid, i) = 404
         /\ thoughtFound(thoughts, thoughts[i].uid, i)
         /\ \A u \in Owners, p \in 1..MaxTagged, c \in CursorParams :
              /\ i \notin SeqRange(getThoughts(u, p, c).thoughts)
              /\ \A t \in TagsParams : i \notin SeqRange(getThoughtsByTags(u, p, c, t).thoughts)
  /\ (call.fn = "getThoughtById" /\ call.id \in DOMAIN thoughts
        /\ thoughts[call.id].deleted /\ thoughts[call.id].uid = call.uid)
       => call.status = 404

C20_Witness ==
  /\ call.fn = "listThoughtsByTagNames" /\ call.tagsParam = <<"a", ",", "b">>
  /\ call.limit = 2 /\ call.cursor = <<>>
  /\ Len(thoughts) = 2
  /\ thoughts[1].uid = call.uid /\ thoughts[2].uid = call.uid
  /\ thoughts[2].deleted /\ ~thoughts[1].deleted
  /\ getThoughtTags(tags, thought_tags, 1) = {Foo, Bar}
  /\ getThoughtTags(tags, thought_tags, 2) = {Foo, Bar}
  /\ call.thoughts = <<1>>

\* the number of days from 1970-01-01 to the civil day, counted from year 1
LeapsThrough(y) == (y \div 4) - (y \div 100) + (y \div 400)
DaysSinceYearOne(y, m, d) ==
  365 * (y - 1) + LeapsThrough(y - 1) + DaysBeforeMonth(y, m) + (d - 1)
UtcMidnightPlus(y, m, d, seconds) ==
  LET days == DaysSinceYearOne(y, m, d) - DaysSinceYearOne(1970, 1, 1)
  IN [day |-> days + (seconds \div 86400), rest |-> seconds % 86400]

\* C21: for every civil day D and offset of m minutes, utcRangeForLocalDay
\* returns start = epoch seconds of UTC midnight of D plus 60 * m and
\* endExclusive = start + 86400, and the range of the next day with the same
\* offset starts where this one ends.
C21_LocalDayRange ==
  /\ call.stage >= 1 =>
       /\ call.range.start
            = UtcMidnightPlus(call.day.y, call.day.m, call.day.d, 60 * call.tzOffsetMinutes)
       /\ call.range.endExclusive
            = UtcMidnightPlus(call.day.y, call.day.m, call.day.d,
                              60 * call.tzOffsetMinutes + 86400)
  /\ call.stage = 2 =>
       /\ call.rangeAfter.start = call.range.endExclusive
       /\ call.rangeAfter.endExclusive.rest = call.rangeAfter.start.rest
       /\ call.rangeAfter.endExclusive.day = call.rangeAfter.start.day + 1

\* An integer written plainly: an optional minus sign and digits.
PlainInteger(str) ==
  IF str # <<>> /\ Head(str) = "-" THEN IsDigits(Tail(str)) ELSE IsDigits(str)
PlainValue(str) == IF Head(str) = "-" THEN 0 - ToNat(Tail(str)) ELSE ToNat(str)
Clamped(v) == IF v > 840 THEN 840 ELSE IF v < -840 THEN -840 ELSE v

\* C22: parseTzOffsetMinutesParam returns 0 for a missing, empty, non-numeric,
\* non-finite or non-integer input and otherwise the integer clamped to
\* -840..840; its result is always an integer of that range.
C22_TzOffsetParsed ==
  (call.fn = "parseTzOffsetMinutesParam" /\ call.stage = 1) =>
    LET n == StringToNumber(call.raw.chars)
    IN /\ call.ret \in -840..840
       /\ (call.raw.null \/ call.raw.chars = <<>>) => call.ret = 0
       /\ (~call.raw.null /\ (n.nan \/ ~n.finite \/ ~n.whole)) => call.ret = 0
       /\ (~call.raw.null /\ n.finite /\ n.whole) => call.ret = Clamped(n.int)
       /\ (~call.raw.null /\ PlainInteger(call.raw.chars))
            => call.ret = Clamped(PlainValue(call.raw.chars))
       /\ (~call.raw.null /\ "f" \in SeqRange(call.raw.chars)) => call.ret = 0

C22_Witness ==
  /\ call.fn = "parseTzOffsetMinutesParam" /\ call.stage = 1
  /\ call.raw = Param(<<"-", "9", "9", "9">>)
  /\ call.ret = -840

\* The rows an owner has in each table.
RowsOf(u) ==
  [thoughts |-> {<<i, thoughts[i]>> : i \in {k \in DOMAIN thoughts : thoughts[k].uid = u}},
   tags |-> {<<i, tags[i]>> : i \in {k \in DOMAIN tags : tags[k].uid = u}},
   thought_tags |-> {l \in thought_tags : thoughts[l[1]].uid = u \/ tags[l[2]].uid = u},
   jobs |-> {<<i, jobs[i]>> : i \in {k \in DOMAIN jobs : jobs[k].uid = u}},
   moods |-> {m \in moods : m.uid = u \/ thoughts[m.thought_id].uid = u}]

\* The tables with every row of owner u changed: thoughts deleted or restored
\* and moved in time, tags renamed, links dropped, jobs in another status.
Changed(u) ==
  [thoughts |-> [i \in DOMAIN thoughts |->
                   IF thoughts[i].uid = u
                   THEN [thoughts[i] EXCEPT !.deleted = ~@, !.created_at = MaxNow - @]
                   ELSE thoughts[i]],
   tags |-> [i \in DOMAIN tags |->
               IF tags[i].uid = u
               THEN [tags[i] EXCEPT !.name = IF @ = Foo THEN Bar ELSE Foo]
               ELSE tags[i]],
   thought_tags |-> {l \in thought_tags : thoughts[l[1]].uid # u /\ tags[l[2]].uid # u},
   jobs |-> [i \in DOMAIN jobs |->
               IF jobs[i].uid = u
               THEN [jobs[i] EXCEPT !.status = IF @ = "done" THEN "error" ELSE "done"]
               ELSE jobs[i]]]

\* The response recorded for a read of owner a is the one the same request
\* gets when the rows of owner b are changed.
ReadIgnores(a, b) ==
  LET other == Changed(b)
      names == parseTagsParam(call.tagsParam)
  IN /\ call.fn = "listThoughts" =>
          call.thoughts = listThoughts(other.thoughts, a, clampLimit(call.limit),
                                       parseCursor(call.cursor))
     /\ call.fn = "listThoughtsByTagNames" =>
          /\ call.thoughts = listThoughtsByTagNames(other.thoughts, other.tags,
                                 other.thought_tags, a, names, clampLimit(call.limit),
                                 parseCursor(call.cursor))
          /\ \A k \in DOMAIN call.thoughts :
               /\ thoughts[call.thoughts[k]].uid = a
               /\ \A n \in SeqRange(names) :
                    \E l \in thought_tags :
                      l[1] = call.thoughts[k] /\ tags[l[2]].uid = a /\ tags[l[2]].name = n
     /\ call.fn = "getThoughtById" =>
          /\ call.status = (IF ~thoughtFound(other.thoughts, a, call.id) THEN 500
                            ELSE IF other.thoughts[call.id].deleted THEN 404 ELSE 200)
          /\ call.status = 200 => thoughts[call.id].uid = a
     /\ call.fn = "analysisStatus" =>
          /\ call.summary = summarizeJobs(getAnalysisJobStatusSummary(other.jobs, a, call.id))
          /\ (call.id \in DOMAIN thoughts /\ thoughts[call.id].uid = b) => call.summary.isNull

\* C23: a request made as owner a changes no row of another owner b, and the
\* response to a read made as a is the same whatever b's rows are: by-tags
\* matches only tags owned by a, and analysis-status for a thought of b is
\* null for a.
C23_TenantsIsolated ==
  [][/\ \A a \in Owners : \A b \in Owners \ {a} :
          (WriteAs(a) \/ ReadAs(a)) => RowsOf(b)' = RowsOf(b)
     /\ \A b \in Owners :
          ((call.fn # "none" /\ call.uid # b) => ReadIgnores(call.uid, b))']_vars

\* owner u1 asks for the analysis status of a thought of u2 that has a done
\* job, a tag and a mood, while u1 has a thought of its own
C23_Witness ==
  /\ call.fn = "analysisStatus" /\ call.uid = "u1"
  /\ call.id \in DOMAIN thoughts /\ thoughts[call.id].uid = "u2"
  /\ \E j \in DOMAIN jobs : jobs[j].uid = "u2" /\ jobs[j].status = "done"
  /\ \E l \in thought_tags : l[1] = call.id
  /\ \E m \in moods : m.thought_id = call.id
  /\ \E i \in DOMAIN thoughts : thoughts[i].uid = "u1" /\ thoughts[i].edited

\* C24: each accepted edit of a thought inserts one tagging and one mood job
\* row with status queued and attempts 0 and leaves every job row that existed
\* as it was; a done job is not reopened.
C24_EditAddsJobsOnly ==
  [][\A u \in Users, i \in 1..MaxThoughts, b \in Bodies :
       (PatchThought(u, i, b) /\ resp'.ok) =>
         /\ Len(jobs') = Len(jobs) + 2
         /\ \A k \in DOMAIN jobs : jobs'[k] = jobs[k]
         /\ {jobs'[k].step : k \in DOMAIN jobs' \ DOMAIN jobs} = {"tagging", "mood"}
         /\ \A k \in DOMAIN jobs' \ DOMAIN jobs :
              /\ jobs'[k].status = "queued" /\ jobs'[k].attempts = 0
              /\ jobs'[k].thought_id = i /\ jobs'[k].uid = u]_vars

\* an accepted edit made when the thought had a done job and a job in error
C24_Witness ==
  /\ resp.op = "patch" /\ resp.ok
  /\ Len(jobs) = 4
  /\ jobs[3].status = "queued" /\ jobs[4].status = "queued"
  /\ \E k \in 1..2 : jobs[k].status = "done"
  /\ \E k \in 1..2 : jobs[k].status = "error" /\ jobs[k].attempts = 1
  /\ \A w \in Workers : worker[w].pc = "idle"

\* C25: when the AI text of a tagging job parses as JSON whose tags is missing,
\* null or not an array, the pass is a validation failure: it goes to the catch
\* block (which marks the job error and retries the message) and never reaches
\* the statements that change the thought's tag set.
C25_NonArrayTagsRejected ==
  [][\A w \in Workers :
       CallTaggerAi(w, [kind |-> "json", tags |-> NotArr]) =>
         /\ worker'[w].pc = "catch"
         /\ worker'[w].err \in AiErrors]_vars

\* what the pass does with such an answer: the thought loses the tags it had
\* and the job is about to be marked done
C25_TagsClearedAndDone ==
  \E w \in Workers :
    /\ worker[w].pc = "mark_done" /\ worker[w].step = "tagging"
    /\ worker[w].valid = <<>> /\ worker[w].toRemove # {}
    /\ getThoughtTags(tags, thought_tags, worker[w].thoughtId) = {}

\* C26: every delivery of a well-formed message whose job exists raises the
\* job's attempts by exactly 1, whatever the outcome, a delivery that finds the
\* job already done included: the consumer that loaded the job goes on to the
\* mark-processing and increment statements, and attempts changes only by the
\* increment of a pass, by 1.
C26_AttemptsCountDeliveries ==
  [][/\ \A w \in Workers :
          (/\ GetJob(w)
           /\ ~bodyRejected(CurrentBody(worker[w]))
           /\ jobExists(jobs, boundJobId(CurrentBody(worker[w]))))
            => worker'[w].pc = "mark_processing"
     /\ \A j \in DOMAIN jobs :
          jobs'[j].attempts # jobs[j].attempts =>
            /\ jobs'[j].attempts = jobs[j].attempts + 1
            /\ \E w \in Workers : IncrementAttempts(w) /\ worker[w].jobId = j]_vars

\* two deliveries of the message of job 1, one after the other, and attempts 1
C26_TwoDeliveriesOneAttempt ==
  /\ counters.deliveries = 2 /\ counters.injected = 0
  /\ \A w \in Workers : worker[w].pc = "idle"
  /\ Len(jobs) = 2
  /\ jobs[2].status = "queued" /\ jobs[2].attempts = 0 /\ JobMsg(2) \in queue
  /\ jobs[1].status = "done" /\ jobs[1].attempts = 1

\* C27: a job row with status done has error, error_stack and error_details
\* all empty, a job that failed on earlier deliveries before succeeding included.
C27_DoneHasNoErrorFields ==
  \A j \in DOMAIN jobs :
    jobs[j].status = "done" =>
      /\ jobs[j].error = NULL
      /\ jobs[j].error_stack = NULL
      /\ jobs[j].error_details = NULL

\* C28: under any interleaving of deliveries the row of a tagging or mood job
\* enters status done or error only from processing, and leaves queued or
\* error only by becoming processing.
C28_StatusPath ==
  [][\A j \in DOMAIN jobs :
       (jobs[j].step \in Steps /\ jobs'[j].status # jobs[j].status) =>
         /\ jobs'[j].status \in {"done", "error"} => jobs[j].status = "processing"
         /\ jobs[j].status \in {"queued", "error"} => jobs'[j].status = "processing"]_vars

\* the same with done -> error and error -> done let through
C28_StatusPathButOverlap ==
  [][\A j \in DOMAIN jobs :
       (jobs[j].step \in Steps /\ jobs'[j].status # jobs[j].status) =>
         \/ <<jobs[j].status, jobs'[j].status>> \in
              {<<"queued", "processing">>, <<"error", "processing">>,
               <<"processing", "done">>, <<"processing", "error">>}
         \/ /\ <<jobs[j].status, jobs'[j].status>> \in {<<"done", "error">>, <<"error", "done">>}
            /\ counters.dups > 0]_vars

StatusOf(j) == IF j \in DOMAIN jobs THEN jobs[j].status ELSE "none"

\* C29: with every retried message redelivered, storage calls succeeding and
\* the AI answering validly in the end, every tagging or mood job whose
\* message was enqueued reaches status done with its message acknowledged
\* (off the queue, no consumer holding it), and a job in status error becomes
\* processing again on the redelivery of its message.
C29_EveryJobGetsDone ==
  \A j \in 1..LiveJobs :
    /\ (JobMsg(j) \in queue)
         ~> (/\ StatusOf(j) = "done"
             /\ JobMsg(j) \notin queue
             /\ \A w \in Workers : worker[w].pc = "idle" \/ worker[w].jobId # j)
    /\ (StatusOf(j) = "error") ~> (StatusOf(j) = "processing")

\* a job done on its second delivery, after a failed first pass
C29_Witness ==
  \E j \in DOMAIN jobs :
    /\ jobs[j].status = "done" /\ jobs[j].attempts = 2
    /\ jobs[j].error_stack # NULL
    /\ JobMsg(j) \notin queue
    /\ \A w \in Workers : worker[w].pc = "idle"

\* A consumer that has run markJobProcessing and incrementJobAttempts for the
\* job it loaded and has not ended its pass.
InPass(w) ==
  worker[w].pc \in {"get_thought", "skip_deleted", "ai", "tags_read", "tags_add",
                    "tags_remove", "upsert_mood", "mark_done"}

\* C30: the markProcessing guard gives no exclusive ownership of a job: two
\* consumers that loaded the same job while it was not done are both let
\* through, each pass counting in attempts, and there is an interleaving in
\* which both call the AI and both apply the side effects for the job.
C30_BothPassesRun ==
  \A w1 \in Workers : \A w2 \in Workers \ {w1} :
    (InPass(w1) /\ InPass(w2) /\ worker[w1].jobId = worker[w2].jobId) =>
      /\ jobs[worker[w1].jobId].attempts >= 2
      /\ jobs[worker[w1].jobId].status # "queued"

\* both consumers called the AI and changed the tag set for job 1, and the
\* job's attempts is 2
C30_Witness ==
  /\ worker["w1"].jobId = 1 /\ worker["w2"].jobId = 1
  /\ worker["w1"].aiCalls = 1 /\ worker["w2"].aiCalls = 1
  /\ worker["w1"].pc = "end" /\ worker["w1"].result = "tags"
  /\ worker["w2"].pc = "mark_done" /\ worker["w2"].result = "tags"
  /\ jobs[1].step = "tagging" /\ jobs[1].attempts = 2
  /\ jobs[1].status = "done"

\* C31: a delivery that loads a tagging or mood job whose status is already
\* done makes no AI call, changes no job row, no tag association and no mood
\* row, and acknowledges the message: the consumer is at the end of the batch
\* right after the load.
C31_DoneJobUntouched ==
  [][\A w \in Workers :
       (/\ worker[w].pc = "msg" /\ worker'[w] # worker[w]
        /\ ~bodyRejected(CurrentBody(worker[w]))
        /\ jobExists(jobs, boundJobId(CurrentBody(worker[w])))
        /\ jobs[boundJobId(CurrentBody(worker[w]))].step \in Steps
        /\ jobs[boundJobId(CurrentBody(worker[w]))].status = "done")
         => /\ worker'[w].pc = "end"
            /\ worker'[w].signals = <<Ack>>
            /\ worker'[w].aiCalls = 0
            /\ UNCHANGED <<jobs, tags, thought_tags, moods, queue>>]_vars

\* a second delivery of job 1's message that found the job done
C31_Witness ==
  \E w \in Workers :
    /\ worker[w].pc = "end" /\ worker[w].jobId = 1 /\ worker[w].touched
    /\ worker[w].aiCalls = 0 /\ ~worker[w].sawDeleted
    /\ worker[w].signals = <<Ack>>
    /\ jobs[1].status = "done" /\ jobs[1].attempts = 1 /\ jobs[1].result = "tags"
    /\ \A v \in Workers \ {w} : worker[v].pc = "idle"

\* Two consumers that have each run the tag-set statements of a pass, for two
\* different tagging jobs of the same thought.
TwoPassesOver(w1, w2) ==
  /\ worker[w1].pc \in {"mark_done", "end"} /\ worker[w1].result = "tags"
  /\ worker[w2].pc \in {"mark_done", "end"} /\ worker[w2].result = "tags"
  /\ worker[w1].jobId # worker[w2].jobId
  /\ worker[w1].thoughtId = worker[w2].thoughtId

\* C32: tag replacement is not isolated.  Two tagging passes on one thought
\* with valid sets V1 and V2 can interleave so that, both jobs done, the tag
\* set is neither V1 nor V2; what two such passes always leave is a set
\* between the intersection and the union of V1 and V2.
C32_TagSetBetween ==
  \A w1 \in Workers : \A w2 \in Workers \ {w1} :
    TwoPassesOver(w1, w2) =>
      LET V1 == SeqRange(worker[w1].valid)
          V2 == SeqRange(worker[w2].valid)
          T == getThoughtTags(tags, thought_tags, worker[w1].thoughtId)
      IN (V1 \cap V2) \subseteq T /\ T \subseteq (V1 \cup V2)

\* both jobs done, both passes over, and the thought carries the names of both
\* answers
C32_Witness ==
  /\ TwoPassesOver("w1", "w2")
  /\ worker["w1"].pc = "end" /\ worker["w2"].pc = "end"
  /\ jobs[worker["w1"].jobId].status = "done" /\ jobs[worker["w2"].jobId].status = "done"
  /\ LET T == getThoughtTags(tags, thought_tags, worker["w1"].thoughtId)
     IN /\ T # SeqRange(worker["w1"].valid)
        /\ T # SeqRange(worker["w2"].valid)
        /\ worker["w1"].valid # <<>> /\ worker["w2"].valid # <<>>

\* C33: when thoughts are created or soft-deleted between the page requests,
\* following next_cursor through the listing never returns a thought twice and
\* returns every thought of the owner that was listed when the traversal began
\* and is still not deleted when it ends.
C33_PagingUnderChange ==
  call.fn = "listThoughts" =>
    LET all == Concat(call.pages)
    IN /\ \A j, k \in DOMAIN all : all[j] = all[k] => j = k
       /\ call.next_cursor.isNull =>
            {i \in call.atStart : ~thoughts[i].deleted} \subseteq SeqRange(all)

\* a traversal of two thoughts, page size 1, during which one of them was
\* deleted before its page and a third thought was posted
C33_Witness ==
  /\ call.fn = "listThoughts" /\ call.next_cursor.isNull
  /\ call.limit = 1 /\ call.atStart = {1, 2}
  /\ Len(thoughts) = 3 /\ thoughts[3].uid = call.uid
  /\ thoughts[1].deleted /\ ~thoughts[2].deleted /\ ~thoughts[3].deleted
  /\ call.pages = << <<2>>, <<>> >>

\* C34: following next_cursor through the tag listing returns every tag of the
\* owner exactly once, tags with a null or tied last_used_at included, also
\* when tagging passes bump last_used_at between the page requests: none is
\* returned twice and none that existed at the first request is skipped.
C34_TagPagingUnderBumps ==
  call.fn = "listUserTagsWithStats" =>
    LET all == Concat(call.pages)
    IN /\ \A j, k \in DOMAIN all : all[j] = all[k] => j = k
       /\ call.next_cursor.isNull => call.atStart \subseteq SeqRange(all)

\* the part of it that holds: no tag is returned twice
C34_NoTagTwice ==
  call.fn = "listUserTagsWithStats" =>
    LET all == Concat(call.pages)
    IN \A j, k \in DOMAIN all : all[j] = all[k] => j = k

\* C35: within one batch every message gets exactly one of ack and retry, the
\* messages are handled in batch order, and a failure on one message, a failed
\* write of its error included, does not keep a later message from being
\* processed and signalled: a consumer working on message k has signalled the
\* k - 1 messages before it, each signal is given as the consumer moves on, and
\* the batch ends only with one signal per message.
C35_OneSignalPerMessage ==
  [][\A w \in Workers :
       /\ worker'[w].pc \notin {"idle", "end"} =>
            /\ worker'[w].idx \in DOMAIN worker'[w].batch
            /\ Len(worker'[w].signals) = worker'[w].idx - 1
       /\ worker'[w].pc = "end" =>
            /\ worker'[w].idx = Len(worker'[w].batch)
            /\ Len(worker'[w].signals) = Len(worker'[w].batch)
       /\ (worker[w].pc \notin {"idle", "end"} /\ worker'[w].signals # worker[w].signals) =>
            /\ \E sig \in {Ack, Retry30} : worker'[w].signals = Append(worker[w].signals, sig)
            /\ worker'[w].batch = worker[w].batch
            /\ \/ worker'[w].pc = "end" /\ worker'[w].idx = worker[w].idx
               \/ worker'[w].pc = "msg" /\ worker'[w].idx = worker[w].idx + 1
            /\ (CurrentBody(worker[w]) \in queue') <=>
                 worker'[w].signals[worker[w].idx] = Retry30]_vars

\* a batch whose first message failed, its error could not be written, and
\* whose second message was processed to done and acknowledged
C35_Witness ==
  \E w \in Workers :
    /\ worker[w].pc = "end" /\ Len(worker[w].batch) = 2
    /\ worker[w].signals = <<Retry30, Ack>>
    /\ worker[w].batch[1].kind = "job" /\ worker[w].batch[2].kind = "job"
    /\ jobExists(jobs, worker[w].batch[1].jobId) /\ jobExists(jobs, worker[w].batch[2].jobId)
    /\ jobs[worker[w].batch[1].jobId].status = "processing"
    /\ jobs[worker[w].batch[2].jobId].status = "done"
    /\ worker[w].aiCalls = 1

\* the fields of a summary that C36 compares
Counts(a) ==
  [isNull |-> a.isNull, status |-> a.status, total |-> a.total, queued |-> a.queued,
   processing |-> a.processing, done |-> a.done, error |-> a.error]

\* C36: the analysis summary in the response to an edit equals the summary the
\* aggregator computes from all job rows of the thought once the two new jobs
\* are inserted: same status, total, queued, processing, done and error.
C36_PatchSummaryIsAggregate ==
  [][\A u \in Users, i \in 1..MaxThoughts, b \in Bodies :
       (PatchThought(u, i, b) /\ resp'.ok) =>
         Counts(resp'.analysis)
           = Counts(summarizeJobs(getAnalysisJobStatusSummary(jobs', u, i)))]_vars

\* C37: an edit request for a thought that is already soft-deleted leaves the
\* thought row unchanged, inserts no job row and sends no queue message.
C37_EditOfDeletedChangesNothing ==
  [][\A u \in Users, i \in 1..MaxThoughts, b \in Bodies :
       (thoughtFound(thoughts, u, i) /\ thoughts[i].deleted /\ PatchThought(u, i, b)) =>
         UNCHANGED <<thoughts, jobs, queue>>]_vars

\* the part of C37 the code keeps: the row of a deleted thought is not edited
C37_EditOfDeletedKeepsRow ==
  [][\A u \in Users, i \in 1..MaxThoughts, b \in Bodies :
       (thoughtFound(thoughts, u, i) /\ thoughts[i].deleted /\ PatchThought(u, i, b)) =>
         UNCHANGED thoughts]_vars

\* the tag associations and the mood row of thought i
AnalysisOf(tt, ms, i) ==
  [links |-> {l \in tt : l[1] = i}, mood |-> {m \in ms : m.thought_id = i}]

\* C38: once a thought is soft-deleted, its tag association set and its mood
\* row never change again, however the delete request interleaves with
\* tagging and mood passes in flight for the thought.
C38_DeletedThoughtFrozen ==
  [][\A i \in DOMAIN thoughts :
       thoughts[i].deleted =>
         AnalysisOf(thought_tags', moods', i) = AnalysisOf(thought_tags, moods, i)]_vars

\* the part of C38 the code keeps: the rows of a deleted thought change only
\* by a pass that loaded the thought before it was deleted
C38_OnlyEarlierLoadsWrite ==
  [][\A i \in DOMAIN thoughts :
       (thoughts[i].deleted
          /\ AnalysisOf(thought_tags', moods', i) # AnalysisOf(thought_tags, moods, i)) =>
         \E w \in Workers :
           /\ worker[w].thoughtId = i /\ ~worker[w].sawDeleted
           /\ worker[w].pc \in {"tags_add", "tags_remove", "upsert_mood"}
           /\ worker'[w].pc # worker[w].pc]_vars

\* every job row of thought i is done and no consumer is working
Settled(i) ==
  /\ \E k \in DOMAIN jobs : jobs[k].thought_id = i
  /\ \A k \in DOMAIN jobs : jobs[k].thought_id = i => jobs[k].status = "done"
  /\ \A w \in Workers : worker[w].pc \in {"idle", "end"}

\* C39: whenever every job of a non-deleted thought is done and no pass is in
\* flight, the thought's tag set is the valid set the AI produced for the
\* thought's current body, however edits interleave with the processing of
\* jobs created by earlier edits.
C39_TagsOfCurrentBody ==
  \A i \in DOMAIN thoughts :
    (~thoughts[i].deleted /\ Settled(i)) =>
      getThoughtTags(tags, thought_tags, i)
        = SeqRange(normalizeAndValidateTags(TaggerAnswer(thoughts[i].body).tags).valid)

\* the owner's listed thoughts, and the least number of pages of p that hold n rows
Listed(uid) == {i \in DOMAIN thoughts : thoughts[i].uid = uid /\ ~thoughts[i].deleted}
CeilDiv(n, p) == (n + p - 1) \div p

\* C40: on an unchanging table of N listed thoughts and page size P, a client
\* following next_cursor has made at most ceil(N/P) + 1 requests, the last of
\* them allowed answers a null next_cursor, and next_cursor is null exactly
\* when the returned page is empty.
C40_ListingEnds ==
  call.fn = "listThoughts" =>
    LET n == Len(call.pages)
        most == CeilDiv(Cardinality(Listed(call.uid)), clampLimit(call.limit)) + 1
    IN /\ n <= most
       /\ n = most => call.next_cursor.isNull
       /\ call.next_cursor.isNull <=> call.pages[n] = <<>>

\* three requests for two thoughts, one to a page: two pages of one, an empty one
C40_Witness ==
  /\ call.fn = "listThoughts"
  /\ call.next_cursor.isNull
  /\ Cardinality(Listed(call.uid)) = 2
  /\ clampLimit(call.limit) = 1
  /\ Len(call.pages) = 3
  /\ call.pages[3] = <<>>

====
